---- MODULE Spec2Model ----
(***************************************************************************)
(* A model of the vue-router core: the route table builder                 *)
(* (create-route-map.js), the chain diff and the navigation transition     *)
(* engine (history/base.js), the queue runner (util/async.js) and the lazy *)
(* view resolver (util/resolve-components.js).                             *)
(*                                                                         *)
(* Path strings are sequences of one-character strings, so that the string *)
(* operations of the source (strip a trailing slash, join with the parent  *)
(* path, collapse double slashes) are computed and not assumed.            *)
(***************************************************************************)
EXTENDS Integers, Sequences, FiniteSets, TLC

\* ------------------------------------------------------------------ bounds

\* addRoutes calls after the initial build
MaxAddRoutes == 1
\* declarations in one routes array (initial build or addRoutes)
MaxRoutes == 2
\* length of a matched chain given to resolveQueue
MaxChain == 3

\* ------------------------------------------------------------- JS values

\* undefined / null
Undefined == "undefined"
\* no parent record
NoParent == 0
\* array[i] out of range, among record identities (which start at 1)
NoRecord == 0
\* the Route that stands for "nowhere", among Route identities (which start at 1)
START == 0
\* pending = null, among Route identities
NullRoute == -1
\* an absent string-valued option, among paths
NoPath == <<"undefined">>

\* ------------------------------------------------------------ route table

VARIABLES
    pathList,   \* Array<string>: matching priority
    pathMap,    \* Dictionary<RouteRecord>: path -> record (by identity)
    nameMap,    \* Dictionary<RouteRecord>: name -> record (by identity)
    records,    \* every RouteRecord object created so far, by identity
    regLog,     \* history: every write to pathMap / nameMap, in order
    prePin,     \* history: pathList of the last build before the wildcard pass
    addCalls    \* number of addRoutes calls so far

tableVars == <<pathList, pathMap, nameMap, records, regLog, prePin, addCalls>>

\* ------------------------------------------------------------ resolveQueue

VARIABLES
    rqCurrent,  \* argument `current` of resolveQueue
    rqNext,     \* argument `next` of resolveQueue
    rqResult,   \* its result, or Undefined before the call
    rqDone      \* whether resolveQueue has been applied

diffVars == <<rqCurrent, rqNext, rqResult, rqDone>>

\* ------------------------------------------------------------------- match

VARIABLES
    mLocation,      \* the normalized location given to match: name, path, params
    mCurrentParams, \* currentRoute.params
    mParams,        \* location.params once match has run
    mRoute,         \* the Route match returned
    mAgain,         \* the Route match returned for the path of mRoute
    mPhase          \* 0 before match was called, 1 after, 2 after the second call

matchVars == <<mLocation, mCurrentParams, mParams, mRoute, mAgain, mPhase>>

\* ------------------------------------------------- unregister functions

VARIABLES
    unregs,     \* the unregister functions beforeEach, beforeResolve and afterEach
                \* returned, in order: the list and function each closes over,
                \* and how many times it was called
    entries     \* history: for each hook list, the registration (index into
                \* unregs) that appended each of its entries

unregVars == <<unregs, entries>>

\* ------------------------------------------------------- transition engine

VARIABLES
    readyLog,       \* history: the callbacks onReady invoked itself, in order
    current,        \* History.current: a Route, by identity (START at first)
    pending,        \* History.pending: a Route by identity, or NullRoute
    ready,          \* History.ready
    readyCbs,       \* History.readyCbs
    readyErrorCbs,  \* History.readyErrorCbs
    errorCbs,       \* History.errorCbs
    listener,       \* History.cb: whether listen(cb) has registered a listener
    beforeHooks,    \* VueRouter.beforeHooks
    resolveHooks,   \* VueRouter.resolveHooks
    afterHooks,     \* VueRouter.afterHooks
    routeHeap,      \* every Route object match has created, by identity
    trans,          \* per transitionTo call: the closure of confirmTransition
                    \* and the history of what the call did
    conts,          \* the guards that were invoked and have not yet invoked
                    \* their continuation, each with runQueue's closure
    factories,      \* the lazy factories that were invoked and have not settled
    resolved,       \* the (record, slot) pairs whose factory has been replaced
                    \* in match.components by what it resolved to
    instances       \* the (record, slot) pairs with a registered view instance

engineVars == <<current, pending, ready, readyCbs, readyErrorCbs, errorCbs,
                listener, beforeHooks, resolveHooks, afterHooks, routeHeap, trans,
                conts, factories, resolved, instances>>

\* ------------------------------------------------ the lazy-view step alone

VARIABLES
    lzViews,    \* the view definitions flatMapComponents visits, in order
    lzInvoked,  \* whether the function resolveAsyncComponents returned was called
    lz          \* its closure: hasAsync, pending, error, the called flags of
                \* the once wrappers, the components replaced, and the
                \* history of the calls of next

lazyVars == <<lzViews, lzInvoked, lz>>

\* ------------------------------------------------------- runQueue alone

VARIABLES
    qQueue,     \* runQueue's queue: for each entry whether it is a guard (TRUE)
                \* or null/undefined (FALSE)
    qStarted,   \* whether runQueue has been called
    qAdvanced,  \* for each entry, how often the continuations fn was given
                \* for it have been called
    qLog        \* history: the calls of fn, of the continuations and of cb

queueVars == <<qQueue, qStarted, qAdvanced, qLog>>

\* ------------------------------------------------------- throwing guards

VARIABLES
    throwers    \* for the guards that throw when they are invoked, whether
                \* they throw at once or after they have called next()

\* ------------------------------------------ match on redirecting records

VARIABLES
    rCall,      \* the call of match that has been entered and has not yet
                \* returned: its location, currentRoute and redirectedFrom
    rCalls,     \* history: the calls of match, in the order they were entered
    rRoute      \* the Route the outermost call returned, none while it runs

redirVars == <<rCall, rCalls, rRoute>>

\* the variables that no action of the table, of the matcher and of the
\* engine writes
unitVars == <<lazyVars, queueVars, throwers, redirVars>>

vars == <<tableVars, diffVars, matchVars, unregVars, readyLog, engineVars, unitVars>>

\* ----------------------------------------------------------------- strings

\* the string "/"
Slash == <<"/">>
\* the literal wildcard path "*"
Star == <<"*">>

\* the parameters of the path patterns, as path-to-regexp tokenizes them: one
\* element of a path stands for ':i' (required) and one for ':t?' (optional,
\* taking the slash before it as its prefix); '*' is the unnamed parameter
RequiredKeys == {":i"}
OptionalKeys == {":t?"}
KeyName(tok) ==
    IF tok = ":i" THEN "i" ELSE IF tok = ":t?" THEN "t" ELSE "0"
IsKey(tok) == tok \in RequiredKeys \cup OptionalKeys \cup {"*"}

\* regex.keys of path-to-regexp: the parameters of a path in order, each with
\* its name and whether it is optional
Keys(path) ==
    LET toks == SelectSeq(path, IsKey)
    IN  [k \in 1..Len(toks) |->
            [name |-> KeyName(toks[k]), optional |-> toks[k] \in OptionalKeys]]

\* path.replace(/\/$/, ''): drop one trailing slash
StripTrailingSlash(path) ==
    IF Len(path) > 0 /\ path[Len(path)] = "/"
    THEN SubSeq(path, 1, Len(path) - 1)
    ELSE path

RECURSIVE cleanPath(_)
\* util/path.js cleanPath: path.replace(/\/\//g, '/'), left to right and
\* without rescanning what was replaced
cleanPath(path) ==
    IF Len(path) = 0 THEN << >>
    ELSE IF Len(path) >= 2 /\ path[1] = "/" /\ path[2] = "/"
         THEN Slash \o cleanPath(SubSeq(path, 3, Len(path)))
         ELSE <<path[1]>> \o cleanPath(SubSeq(path, 2, Len(path)))

\* normalizePath(path, parent, strict); parentPath is parent.path, or
\* NoPath when there is no parent
normalizePath(path, parentPath, strict) ==
    LET p == IF ~strict THEN StripTrailingSlash(path) ELSE path
    IN  IF Len(p) > 0 /\ p[1] = "/" THEN p
        ELSE IF parentPath = NoPath THEN p
        ELSE cleanPath(parentPath \o Slash \o p)

\* ------------------------------------------------------------ declarations

\* a view definition of a record, under its slot name (Object.keys order):
\* kind is "undefined" (no component given), "component" (a concrete
\* definition) or "factory" (a lazy factory returning a promise that
\* settles later);
\* leave, update and enter tell whether the definition's options hold
\* beforeRouteLeave, beforeRouteUpdate and beforeRouteEnter
View(slot, kind, leave, update, enter) ==
    [slot |-> slot, kind |-> kind, leave |-> leave, update |-> update, enter |-> enter]

\* components: route.components || {default: route.component}, with no
\* component given
NoComponents == <<View("default", "undefined", FALSE, FALSE, FALSE)>>

\* the redirect option of a RouteConfig: undefined, a string (a path) or an
\* object, of which `has` holds the names of the properties it has among
\* name, path, query, hash and params; NoQuery stands for a query or a hash
\* that was not given
NoQuery == "none"
RedirectOption(kind, has, name, path, query, hash, params) ==
    [kind |-> kind, has |-> has, name |-> name, path |-> path,
     query |-> query, hash |-> hash, params |-> params]
NoRedirect ==
    RedirectOption("undefined", {}, Undefined, NoPath, NoQuery, NoQuery, [k \in {} |-> 0])

\* a RouteConfig: path, name (or Undefined), alias (array of paths, empty
\* when the option is absent), children, pathToRegexpOptions.strict; with
\* no beforeEnter, no component and no redirect
Decl(path, name, alias, children, strict) ==
    [path |-> path, name |-> name, alias |-> alias,
     children |-> children, strict |-> strict,
     beforeEnter |-> FALSE, components |-> NoComponents, redirect |-> NoRedirect]

\* a RouteConfig with a beforeEnter guard (or none) and components
Guarded(decl, beforeEnter, components) ==
    [decl EXCEPT !.beforeEnter = beforeEnter, !.components = components]

Leaf(path, name) == Decl(path, name, << >>, << >>, FALSE)

pA == <<"/", "a">>
pB == <<"b">>
pCslash == <<"/", "c", "/">>
pEmpty == << >>

\* the route declarations the builds draw from
Declarations ==
    { \* a named parent with a named relative child
      Decl(pA, "A", << >>, <<Leaf(pB, "B")>>, FALSE),
      \* the wildcard
      Leaf(Star, "W"),
      \* the first path again under another name, with a default child and a
      \* wildcard child
      Decl(pA, "A2", << >>, <<Leaf(pEmpty, Undefined), Leaf(Star, "W")>>, FALSE),
      \* trailing slash kept (strict), and aliases with a child: they make a
      \* path and a name that the first declaration also makes
      Decl(pCslash, Undefined, <<pA, Star>>, <<Leaf(pB, "A")>>, TRUE),
      \* a wildcard with an alias
      Decl(Star, Undefined, <<pCslash>>, << >>, FALSE) }

RECURSIVE SeqsUpTo(_, _)
\* the sequences over S of length at most n
SeqsUpTo(S, n) ==
    IF n = 0 THEN {<< >>}
    ELSE LET shorter == SeqsUpTo(S, n - 1)
         IN  shorter \cup {Append(s, x) : s \in shorter, x \in S}

RouteLists == SeqsUpTo(Declarations, MaxRoutes)

\* --------------------------------------------------------- addRouteRecord

\* the three lookup structures, the record heap, the write log and the
\* pathList as it was before the wildcard pass
Table(pl, pm, nm, rs, log) ==
    [pathList |-> pl, pathMap |-> pm, nameMap |-> nm, records |-> rs,
     regLog |-> log, prePin |-> pl]

EmptyMap == [k \in {} |-> 0]
EmptyTable == Table(<< >>, EmptyMap, EmptyMap, << >>, << >>)

\* obj[key] = value
MapSet(map, key, value) ==
    [k \in DOMAIN map \cup {key} |-> IF k = key THEN value ELSE map[k]]

\* RegisterPath without the `!pathMap[record.path]` test: the last declaration wins
RegisterPathAlways(T, id) ==
    LET path == T.records[id].path
    IN  [T EXCEPT !.pathList = Append(@, path),
                  !.pathMap = MapSet(@, path, id),
                  !.regLog = Append(@, <<"path", path, id>>)]

\* mutation: RegisterPath registers the path of a record without a parent only
RegisterPathRootsOnly(T, id) ==
    LET path == T.records[id].path
    IN  IF path \notin DOMAIN T.pathMap /\ T.records[id].parent = NoParent
        THEN [T EXCEPT !.pathList = Append(@, path),
                       !.pathMap = MapSet(@, path, id),
                       !.regLog = Append(@, <<"path", path, id>>)]
        ELSE T

\* if (!pathMap[record.path]) { pathList.push(record.path); pathMap[record.path] = record }
RegisterPath(T, id) ==
    LET path == T.records[id].path
    IN  IF path \notin DOMAIN T.pathMap
        THEN [T EXCEPT !.pathList = Append(@, path),
                       !.pathMap = MapSet(@, path, id),
                       !.regLog = Append(@, <<"path", path, id>>)]
        ELSE T

\* RegisterName without the `!nameMap[name]` test: the last declaration wins
RegisterNameAlways(T, id) ==
    LET name == T.records[id].name
    IN  IF name # Undefined
        THEN [T EXCEPT !.nameMap = MapSet(@, name, id),
                       !.regLog = Append(@, <<"name", name, id>>)]
        ELSE T

\* if (name) { if (!nameMap[name]) nameMap[name] = record }
RegisterName(T, id) ==
    LET name == T.records[id].name
    IN  IF name # Undefined /\ name \notin DOMAIN T.nameMap
        THEN [T EXCEPT !.nameMap = MapSet(@, name, id),
                       !.regLog = Append(@, <<"name", name, id>>)]
        ELSE T

\* the source evaluates strictly: the table T is computed before e is
Then(T, e) == IF Len(T.records) >= 0 THEN e ELSE e

\* compileRouteRegex(path, pathToRegexpOptions): the pattern of a record, kept
\* as its source path and the strict option, with its keys
compileRouteRegex(path, strict) ==
    [source |-> path, strict |-> strict, keys |-> Keys(path)]

RECURSIVE addRouteRecord(_, _, _, _)
RECURSIVE AddChildren(_, _, _, _, _)
RECURSIVE AddAliases(_, _, _, _, _)

\* route.children.forEach(child => addRouteRecord(..., child, record, childMatchAs))
AddChildren(T, children, i, id, matchAs) ==
    IF i > Len(children) THEN T
    ELSE LET child == children[i]
             childMatchAs == IF matchAs # NoPath
                             THEN cleanPath(matchAs \o Slash \o child.path)
                             ELSE NoPath
             T1 == addRouteRecord(T, child, id, childMatchAs)
         IN  Then(T1, AddChildren(T1, children, i + 1, id, matchAs))

\* for each alias: addRouteRecord(..., {path: alias, children}, parent, record.path || '/')
AddAliases(T, route, i, id, parent) ==
    IF i > Len(route.alias) THEN T
    ELSE LET aliasRoute == Decl(route.alias[i], Undefined, << >>, route.children, FALSE)
             recPath == T.records[id].path
             target == IF Len(recPath) = 0 THEN Slash ELSE recPath
             T1 == addRouteRecord(T, aliasRoute, parent, target)
         IN  Then(T1, AddAliases(T1, route, i + 1, id, parent))

\* mutation: addRouteRecord registers the record's path before it visits the
\* children
addRouteRecordPathFirst(T, route, parent, matchAs) ==
    LET parentPath == IF parent = NoParent THEN NoPath ELSE T.records[parent].path
        normalizedPath == normalizePath(route.path, parentPath, route.strict)
        record == [path |-> normalizedPath,
                   regex |-> compileRouteRegex(normalizedPath, route.strict),
                   components |-> route.components,
                   name |-> route.name,
                   parent |-> parent,
                   matchAs |-> matchAs,
                   redirect |-> route.redirect,
                   beforeEnter |-> route.beforeEnter]
        id == Len(T.records) + 1
        T1 == RegisterPath([T EXCEPT !.records = Append(@, record)], id)
        T2 == AddChildren(T1, route.children, 1, id, matchAs)
        T3 == AddAliases(T2, route, 1, id, parent)
    IN  Then(T1, Then(T2, Then(T3, RegisterName(T3, id))))

\* addRouteRecord(pathList, pathMap, nameMap, route, parent, matchAs): the
\* record is created, then the children are visited, then the record's own
\* path is registered, then its aliases, then its name
addRouteRecord(T, route, parent, matchAs) ==
    LET parentPath == IF parent = NoParent THEN NoPath ELSE T.records[parent].path
        normalizedPath == normalizePath(route.path, parentPath, route.strict)
        record == [path |-> normalizedPath,
                   regex |-> compileRouteRegex(normalizedPath, route.strict),
                   components |-> route.components,
                   name |-> route.name,
                   parent |-> parent,
                   matchAs |-> matchAs,
                   redirect |-> route.redirect,
                   beforeEnter |-> route.beforeEnter]
        id == Len(T.records) + 1
        T1 == [T EXCEPT !.records = Append(@, record)]
        T2 == AddChildren(T1, route.children, 1, id, matchAs)
        T3 == RegisterPath(T2, id)
        T4 == AddAliases(T3, route, 1, id, parent)
    IN  Then(T1, Then(T2, Then(T3, Then(T4, RegisterName(T4, id)))))

RECURSIVE AddRoutesLoop(_, _, _)
\* routes.forEach(route => addRouteRecord(pathList, pathMap, nameMap, route))
AddRoutesLoop(T, routes, i) ==
    IF i > Len(routes) THEN T
    ELSE LET T1 == addRouteRecord(T, routes[i], NoParent, NoPath)
         IN  Then(T1, AddRoutesLoop(T1, routes, i + 1))

\* pathList.splice(i, 1): the list without its i-th entry (1-based here)
Splice(list, i) == SubSeq(list, 1, i - 1) \o SubSeq(list, i + 1, Len(list))

\* PinWildcards with the wildcard pass left out
PinWildcardsSkipped(list, i, l) == list

RECURSIVE PinWildcards(_, _, _)
\* for (i = 0, l = pathList.length; i < l; i++)
\*   if (pathList[i] === '*') { pathList.push(pathList.splice(i, 1)[0]); l--; i-- }
\* with i the 0-based index of the source
PinWildcards(list, i, l) ==
    IF i >= l THEN list
    ELSE IF list[i + 1] = Star
         THEN PinWildcards(Append(Splice(list, i + 1), list[i + 1]), i, l - 1)
         ELSE PinWildcards(list, i + 1, l)

\* mutation: the wildcard pass runs on the first build only
createRouteMapPinnedOnce(T, routes) ==
    LET built == AddRoutesLoop(T, routes, 1)
    IN  IF Len(T.pathList) = 0
        THEN [built EXCEPT !.pathList = PinWildcards(@, 0, Len(@)),
                           !.prePin = built.pathList]
        ELSE [built EXCEPT !.prePin = built.pathList]

\* createRouteMap(routes, oldPathList, oldPathMap, oldNameMap)
createRouteMap(T, routes) ==
    LET built == AddRoutesLoop(T, routes, 1)
    IN  [built EXCEPT !.pathList = PinWildcards(@, 0, Len(@)),
                      !.prePin = built.pathList]

CurrentTable == Table(pathList, pathMap, nameMap, records, regLog)

\* createMatcher(routes): the initial build
InitTable ==
    \E routes \in RouteLists :
        LET T == createRouteMap(EmptyTable, routes)
        IN  /\ pathList = T.pathList
            /\ pathMap = T.pathMap
            /\ nameMap = T.nameMap
            /\ records = T.records
            /\ regLog = T.regLog
            /\ prePin = T.prePin
            /\ addCalls = 0

\* matcher.addRoutes(routes)
addRoutes ==
    /\ addCalls < MaxAddRoutes
    /\ \E routes \in RouteLists :
        LET T == createRouteMap(CurrentTable, routes)
        IN  /\ pathList' = T.pathList
            /\ pathMap' = T.pathMap
            /\ nameMap' = T.nameMap
            /\ records' = T.records
            /\ regLog' = T.regLog
            /\ prePin' = T.prePin
    /\ addCalls' = addCalls + 1
    /\ UNCHANGED <<diffVars, matchVars, unregVars, readyLog, engineVars, unitVars>>

\* ------------------------------------------------------------ resolveQueue

\* array[i] with the 0-based index of the source: undefined out of range
At(array, i) == IF i < Len(array) THEN array[i + 1] ELSE NoRecord

\* array.slice(i)
SliceFrom(array, i) == SubSeq(array, i + 1, Len(array))
\* array.slice(0, i)
SliceTo(array, i) == SubSeq(array, 1, IF i < Len(array) THEN i ELSE Len(array))

Max(a, b) == IF a >= b THEN a ELSE b

RECURSIVE DivergeFromOne(_, _, _, _)
\* Diverge with the root records (index 0) not compared
DivergeFromOne(currentChain, nextChain, i, max) ==
    IF Max(i, 1) < max /\ At(currentChain, Max(i, 1)) = At(nextChain, Max(i, 1))
    THEN DivergeFromOne(currentChain, nextChain, Max(i, 1) + 1, max)
    ELSE IF max = 0 THEN 0 ELSE Max(i, 1)

RECURSIVE Diverge(_, _, _, _)
\* for (i = 0; i < max; i++) { if (current[i] !== next[i]) break }
Diverge(currentChain, nextChain, i, max) ==
    IF i < max /\ At(currentChain, i) = At(nextChain, i)
    THEN Diverge(currentChain, nextChain, i + 1, max)
    ELSE i

\* resolveQueue(current, next)
resolveQueue(currentChain, nextChain) ==
    LET i == Diverge(currentChain, nextChain, 0, Max(Len(currentChain), Len(nextChain)))
    IN  [updated |-> SliceTo(nextChain, i),
         activated |-> SliceFrom(nextChain, i),
         deactivated |-> SliceFrom(currentChain, i)]

\* record identities the chains are made of
ChainRecords == 1..4
\* a matched chain holds a record once: it is a path from a root to a leaf
Chains == {c \in SeqsUpTo(ChainRecords, MaxChain) :
              \A i, j \in DOMAIN c : c[i] = c[j] => i = j}

InitDiff ==
    /\ rqCurrent \in Chains
    /\ rqNext \in Chains
    /\ rqResult = Undefined
    /\ rqDone = FALSE

ApplyResolveQueue ==
    /\ ~rqDone
    /\ rqResult' = resolveQueue(rqCurrent, rqNext)
    /\ rqDone' = TRUE
    /\ UNCHANGED <<rqCurrent, rqNext, tableVars, matchVars, unregVars, readyLog,
                   engineVars, unitVars>>

\* ------------------------------------------------------------------ bounds

\* transitionTo calls (navigation requests and redirects) on one controller
MaxTransitions == 2
\* transitionTo calls on a controller whose guards all proceed
MaxProceeding == 3
\* registrations through beforeEach, beforeResolve and afterEach, in all
MaxHooks == 2
\* registrations through onReady and onError, in all
MaxListeners == 1

\* ----------------------------------------------------------------- matcher

RECURSIVE RegexTest(_, _)
\* whether the whole of a path matches a pattern whose '*' stands for (.*),
\* whose required parameters stand for ([^\/]+?), whose optional parameters
\* stand for (?:\/([^\/]+?))? and whose other characters stand for themselves
RegexTest(pattern, path) ==
    IF Len(pattern) = 0 THEN Len(path) = 0
    ELSE IF Head(pattern) = "*"
    THEN \/ RegexTest(Tail(pattern), path)
         \/ Len(path) > 0 /\ RegexTest(pattern, Tail(path))
    ELSE IF Len(pattern) >= 2 /\ Head(pattern) = "/" /\ pattern[2] \in OptionalKeys
    THEN \/ RegexTest(Tail(Tail(pattern)), path)
         \/ /\ Len(path) > 0
            /\ Head(path) = "/"
            /\ RegexTest(<<":i">> \o Tail(Tail(pattern)), Tail(path))
    ELSE IF Head(pattern) \in RequiredKeys
    THEN /\ Len(path) > 0
         /\ Head(path) # "/"
         /\ \/ RegexTest(Tail(pattern), Tail(path))
            \/ RegexTest(pattern, Tail(path))
    ELSE /\ Len(path) > 0
         /\ Head(path) = Head(pattern)
         /\ RegexTest(Tail(pattern), Tail(path))

\* path.match(regex) in matchRoute, for the patterns path-to-regexp compiles
\* from paths without parameters: strict, the pattern itself; otherwise the
\* pattern without its trailing slash, followed by an optional slash
matchRoute(regex, path) ==
    IF regex.strict THEN RegexTest(regex.source, path)
    ELSE \/ RegexTest(StripTrailingSlash(regex.source), path)
         \/ RegexTest(StripTrailingSlash(regex.source) \o Slash, path)

NoParams == EmptyMap

\* whether no character of a string is a slash
NoSlash(str) == \A k \in 1..Len(str) : str[k] # "/"

RECURSIVE Capture(_, _)
\* the groups of path.match(regex) for a path the pattern matches, by the
\* name of their keys: (.*) takes the longest prefix that lets the rest
\* match and is kept under pathMatch, ([^\/]+?) the shortest one, and the
\* group of an optional parameter takes part when it can; a group that did
\* not take part gives undefined, kept here as no entry
Capture(pattern, path) ==
    IF Len(pattern) = 0 THEN NoParams
    ELSE IF Head(pattern) = "*"
    THEN LET fits == {n \in 0..Len(path) :
                         RegexTest(Tail(pattern), SubSeq(path, n + 1, Len(path)))}
             n == CHOOSE m \in fits : \A k \in fits : k <= m
         IN  MapSet(Capture(Tail(pattern), SubSeq(path, n + 1, Len(path))),
                    "pathMatch", SubSeq(path, 1, n))
    ELSE IF Len(pattern) >= 2 /\ Head(pattern) = "/" /\ pattern[2] \in OptionalKeys
    THEN LET rest == Tail(Tail(pattern))
             fits == {n \in 1..(Len(path) - 1) :
                         /\ Head(path) = "/"
                         /\ NoSlash(SubSeq(path, 2, n + 1))
                         /\ RegexTest(rest, SubSeq(path, n + 2, Len(path)))}
         IN  IF fits # {}
             THEN LET n == CHOOSE m \in fits : \A k \in fits : m <= k
                  IN  MapSet(Capture(rest, SubSeq(path, n + 2, Len(path))),
                             KeyName(pattern[2]), SubSeq(path, 2, n + 1))
             ELSE Capture(rest, path)
    ELSE IF Head(pattern) \in RequiredKeys
    THEN LET fits == {n \in 1..Len(path) :
                         /\ NoSlash(SubSeq(path, 1, n))
                         /\ RegexTest(Tail(pattern), SubSeq(path, n + 1, Len(path)))}
             n == CHOOSE m \in fits : \A k \in fits : m <= k
         IN  MapSet(Capture(Tail(pattern), SubSeq(path, n + 1, Len(path))),
                    KeyName(Head(pattern)), SubSeq(path, 1, n))
    ELSE Capture(Tail(pattern), Tail(path))

\* mutation: the groups of the match are not copied to the params
matchParamsNone(regex, path) == NoParams

\* the params matchRoute(regex, path, params) fills in when the path matches
\* (decodeURIComponent changes no character of the paths used here)
matchParams(regex, path) ==
    IF regex.strict THEN Capture(regex.source, path)
    ELSE IF RegexTest(StripTrailingSlash(regex.source), path)
    THEN Capture(StripTrailingSlash(regex.source), path)
    ELSE Capture(StripTrailingSlash(regex.source) \o Slash, path)

RECURSIVE formatMatchPush(_, _)
\* mutation: the records are pushed, not unshifted: the chain runs from the
\* record to its root ancestor
formatMatchPush(T, record) ==
    IF record = NoRecord THEN << >>
    ELSE <<record>> \o formatMatchPush(T, T.records[record].parent)

RECURSIVE formatMatch(_, _)
\* util/route.js formatMatch: the chain from the root ancestor to the record
formatMatch(T, record) ==
    IF record = NoRecord THEN << >>
    ELSE formatMatch(T, T.records[record].parent) \o <<record>>

\* util/route.js createRoute(record, location)
createRoute(T, record, path) ==
    [path |-> path, matched |-> formatMatch(T, record)]

\* mutation: the last entry that matches wins
ScanPathListLast(T, path, i) ==
    LET hits == {j \in i..Len(T.pathList) :
                    matchRoute(T.records[T.pathMap[T.pathList[j]]].regex, path)}
    IN  IF hits = {} THEN NoRecord
        ELSE T.pathMap[T.pathList[CHOOSE j \in hits : \A k \in hits : k <= j]]

RECURSIVE ScanPathList(_, _, _)
\* for (i = 0; i < pathList.length; i++)
\*   if (matchRoute(pathMap[pathList[i]].regex, location.path, ...)) return ...
\* with i 1-based here; NoRecord when nothing matches
ScanPathList(T, path, i) ==
    IF i > Len(T.pathList) THEN NoRecord
    ELSE IF matchRoute(T.records[T.pathMap[T.pathList[i]]].regex, path)
         THEN T.pathMap[T.pathList[i]]
         ELSE ScanPathList(T, path, i + 1)

\* no params: {}

RECURSIVE Fill(_, _)
\* the filler path-to-regexp compiles from a path, applied to params (whose
\* values are strings, kept as sequences of path characters): every
\* parameter is replaced by its value, an optional parameter without a value
\* is left out with its slash, and a required one without a value throws
\* (ok is FALSE then); '*' takes params.pathMatch
Fill(pattern, params) ==
    IF Len(pattern) = 0 THEN [ok |-> TRUE, out |-> << >>]
    ELSE IF Len(pattern) >= 2 /\ Head(pattern) = "/" /\ pattern[2] \in OptionalKeys
    THEN LET rest == Fill(Tail(Tail(pattern)), params)
             key == KeyName(pattern[2])
         IN  IF key \in DOMAIN params
             THEN [rest EXCEPT !.out = (<<"/">> \o params[key]) \o @]
             ELSE rest
    ELSE LET rest == Fill(Tail(pattern), params)
             tok == Head(pattern)
             key == IF tok = "*" THEN "pathMatch" ELSE KeyName(tok)
         IN  IF tok \in RequiredKeys \cup {"*"}
             THEN IF key \in DOMAIN params
                  THEN [rest EXCEPT !.out = params[key] \o @]
                  ELSE [ok |-> FALSE, out |-> << >>]
             ELSE [rest EXCEPT !.out = <<tok>> \o @]

\* util/params.js fillParams(path, params): the filled path, '' when the
\* filler throws
fillParams(path, params) ==
    LET filled == Fill(path, params)
    IN  IF filled.ok THEN filled.out ELSE << >>

\* the last record of a chain, NoRecord for the empty chain
LastOf(matched) == IF Len(matched) = 0 THEN NoRecord ELSE matched[Len(matched)]

RECURSIVE matchByPath(_, _)

\* mutation: the Route of an alias is built from the alias record itself
aliasOwnRecord(T, record, path, params) ==
    LET aliasedPath == fillParams(T.records[record].matchAs, params)
        aliasedMatch == matchByPath(T, aliasedPath)
    IN  [route |-> createRoute(T, record, path), params |-> aliasedMatch.params]

\* alias(record, location, matchAs): match is called on the path that
\* fillParams(matchAs, location.params) gives, and the Route is built for
\* location from the last record of the chain of what it returns, with the
\* params of what it returns
alias(T, record, path, params) ==
    LET aliasedPath == fillParams(T.records[record].matchAs, params)
        aliasedMatch == matchByPath(T, aliasedPath)
    IN  [route |-> createRoute(T, LastOf(aliasedMatch.route.matched), path),
         params |-> aliasedMatch.params]

\* _createRoute(record, location), on a table without redirect records: the
\* Route, and location.params as it leaves them
createRouteFor(T, record, path, params) ==
    IF record # NoRecord /\ T.records[record].matchAs # NoPath
    THEN alias(T, record, path, params)
    ELSE [route |-> createRoute(T, record, path), params |-> params]

\* the Route _createRoute(record, location) returns
CreateRoute(T, record, path, params) == createRouteFor(T, record, path, params).route

\* match(raw) for a normalized location without a name: the path branch,
\* taken when location.path is not empty, and the no-match return
matchByPath(T, path) ==
    IF Len(path) = 0 THEN createRouteFor(T, NoRecord, path, NoParams)
    ELSE LET record == ScanPathList(T, path, 1)
         IN  IF record = NoRecord THEN createRouteFor(T, NoRecord, path, NoParams)
             ELSE createRouteFor(T, record, path,
                                 matchParams(T.records[record].regex, path))

\* the Route of match(raw, currentRoute) for a location given by an absolute
\* path, on the table T (its pathList, pathMap and records)
match(T, path) == matchByPath(T, path).route

\* record.regex.keys.filter(key => !key.optional).map(key => key.name), with
\* indexOf(key) > -1 read as membership
paramNames(record) ==
    {record.regex.keys[k].name :
        k \in {j \in DOMAIN record.regex.keys : ~record.regex.keys[j].optional}}

\* mutation: every param of the current route is inherited
InheritParamsAny(params, currentParams, names) ==
    [key \in DOMAIN params \cup DOMAIN currentParams |->
        IF key \in DOMAIN params THEN params[key] ELSE currentParams[key]]

\* for (const key in currentRoute.params)
\*   if (!(key in location.params) && paramNames.indexOf(key) > -1)
\*     location.params[key] = currentRoute.params[key]
InheritParams(params, currentParams, names) ==
    [key \in DOMAIN params \cup
              {k \in DOMAIN currentParams : k \notin DOMAIN params /\ k \in names} |->
        IF key \in DOMAIN params THEN params[key] ELSE currentParams[key]]

\* match(raw, currentRoute), for a normalized location with a name, with a
\* path or with neither: the Route, and location.params as it leaves them
matchLocation(T, location, currentParams) ==
    IF location.name # Undefined
    THEN IF location.name \notin DOMAIN T.nameMap
         THEN [route |-> CreateRoute(T, NoRecord, location.path, location.params),
               params |-> location.params]
         ELSE LET record == T.nameMap[location.name]
                  params == InheritParams(location.params, currentParams,
                                          paramNames(T.records[record]))
                  path == fillParams(T.records[record].path, params)
              IN  [route |-> CreateRoute(T, record, path, params), params |-> params]
    ELSE IF location.path # NoPath /\ Len(location.path) > 0
    THEN matchByPath(T, location.path)
    ELSE [route |-> CreateRoute(T, NoRecord, location.path, location.params),
          params |-> location.params]

\* START, the initial current route
StartRoute == [path |-> NoPath, matched |-> << >>]

\* util/route.js isSameRoute(a, b), for routes told apart by their path
isSameRoute(a, b) == a.path = b.path

\* ----------------------------------------------------- the engine's routes

pD == <<"/", "d">>
pC == <<"c">>

\* the declarations of the router the transitions run on:
\*   /a      a component with leave, update and enter guards
\*   /a/b    beforeEnter, a component with leave and enter guards
\*   /a/c    beforeEnter, two lazy views, the first with an enter guard
\*   /d      beforeEnter, a component without guards
EngineRoutes ==
    << Guarded(Decl(pA, Undefined, << >>,
                    << Guarded(Leaf(pB, Undefined), TRUE,
                               <<View("default", "component", TRUE, FALSE, TRUE)>>),
                       Guarded(Leaf(pC, Undefined), TRUE,
                               <<View("default", "factory", FALSE, FALSE, TRUE),
                                 View("side", "factory", FALSE, FALSE, FALSE)>>) >>,
                    FALSE),
               FALSE, <<View("default", "component", TRUE, TRUE, TRUE)>>),
       Guarded(Leaf(pD, Undefined), TRUE,
               <<View("default", "component", FALSE, FALSE, FALSE)>>) >>

\* the raw locations of the navigation requests and of the guards' redirects
Locations == {pA \o Slash \o pB, pA \o Slash \o pC, pD}

\* the functions given to beforeEach, beforeResolve, afterEach, onReady and
\* onError: every registration passes a function of its own
Functions == 1..(MaxHooks + MaxListeners)

\* ------------------------------------------------------ state of a handler

\* what a handler reads and writes of the controller while it runs
World ==
    [current |-> current, pending |-> pending, ready |-> ready,
     routeHeap |-> routeHeap, trans |-> trans, conts |-> conts,
     factories |-> factories, resolved |-> resolved, table |-> CurrentTable]

\* the source evaluates strictly: the state W is computed before e is
After(W, e) == IF Len(W.trans) >= 0 THEN e ELSE e

RouteOf(W, r) == IF r = START THEN StartRoute ELSE W.routeHeap[r]

\* one entry of a transition's history: what happened, with current and
\* pending as they were then
Event(W, what, detail, id, slot, arg) ==
    [what |-> what, detail |-> detail, id |-> id, slot |-> slot, arg |-> arg,
     cur |-> W.current, pend |-> W.pending]

Log(W, t, what, detail, id, slot, arg) ==
    [W EXCEPT !.trans[t].events = Append(@, Event(W, what, detail, id, slot, arg))]

\* list.forEach(cb => cb(...)), each call an entry of the history
LogEach(W, t, what, detail, list, arg) ==
    [W EXCEPT !.trans[t].events =
        @ \o [i \in 1..Len(list) |-> Event(W, what, detail, list[i], "", arg)]]

\* ------------------------------------------------------------------ guards

\* an entry of a guard queue
Guard(kind, id, slot) == [kind |-> kind, id |-> id, slot |-> slot]
\* an undefined entry of a guard queue
NullGuard == Guard("null", 0, "")

Reverse(seq) == [i \in 1..Len(seq) |-> seq[Len(seq) + 1 - i]]

RECURSIVE flatMapComponents(_, _)
\* flatMapComponents(matched, fn): the (record, view) pairs fn is applied to,
\* in order
flatMapComponents(T, matched) ==
    IF Len(matched) = 0 THEN << >>
    ELSE LET m == matched[1]
         IN  [k \in 1..Len(T.records[m].components) |->
                 [rec |-> m, view |-> T.records[m].components[k]]]
             \o flatMapComponents(T, Tail(matched))

\* typeof def === 'function' && def.cid === undefined, for m.components[key]
IsFactory(W, rec, view) ==
    view.kind = "factory" /\ <<rec, view.slot>> \notin W.resolved

\* extractGuard(def, key): def.options[key], or undefined; the options of a
\* factory that has not resolved are undefined, and reading them throws
extractGuard(W, rec, view, key) ==
    IF IsFactory(W, rec, view) THEN "TypeError"
    ELSE IF key = "beforeRouteLeave" /\ view.leave THEN "guard"
    ELSE IF key = "beforeRouteUpdate" /\ view.update THEN "guard"
    ELSE IF key = "beforeRouteEnter" /\ view.enter THEN "guard"
    ELSE "undefined"

\* bindGuard(guard, instance): undefined when the view has no instance
bindGuard(kind, rec, slot) ==
    IF <<rec, slot>> \in instances THEN Guard(kind, rec, slot) ELSE NullGuard

\* bindEnterGuard(guard, match, key, cbs, isValid)
bindEnterGuard(kind, rec, slot) == Guard(kind, rec, slot)

\* extractGuards(records, name, bind, reverse), with kind the name the queue
\* entries are known by and bound telling bindGuard from bindEnterGuard
extractGuards(W, matched, key, kind, bound, reverse) ==
    LET pairs == flatMapComponents(W.table, matched)
        guards == [k \in 1..Len(pairs) |->
            LET guard == extractGuard(W, pairs[k].rec, pairs[k].view, key)
            IN  IF guard = "TypeError" THEN Guard("TypeError", pairs[k].rec, pairs[k].view.slot)
                ELSE IF guard = "undefined" THEN NullGuard
                ELSE IF bound THEN bindGuard(kind, pairs[k].rec, pairs[k].view.slot)
                ELSE bindEnterGuard(kind, pairs[k].rec, pairs[k].view.slot)]
    IN  IF reverse THEN Reverse(guards) ELSE guards

extractLeaveGuards(W, deactivated) ==
    extractGuards(W, deactivated, "beforeRouteLeave", "leave", TRUE, TRUE)

extractUpdateHooks(W, updated) ==
    extractGuards(W, updated, "beforeRouteUpdate", "update", TRUE, FALSE)

extractEnterGuards(W, activated) ==
    extractGuards(W, activated, "beforeRouteEnter", "enter", FALSE, FALSE)

\* activated.map(m => m.beforeEnter)
BeforeEnterGuards(T, activated) ==
    [k \in 1..Len(activated) |->
        IF T.records[activated[k]].beforeEnter
        THEN Guard("beforeEnter", activated[k], "")
        ELSE NullGuard]

\* router.beforeHooks, router.resolveHooks as queue entries
HookGuards(kind, hooks) == [k \in 1..Len(hooks) |-> Guard(kind, hooks[k], "")]

\* the queue entry resolveAsyncComponents(activated) returns
LazyGuard == Guard("lazy", 0, "")

\* whether building a queue threw
Throws(queue) == \E k \in 1..Len(queue) : queue[k].kind = "TypeError"

\* ------------------------------------------------------------- transitions

\* the arguments a guard passes to next, and the reasons given to abort
Arg(kind, form, loc, replace) ==
    [kind |-> kind, form |-> form, loc |-> loc, replace |-> replace]
Proceed == Arg("undefined", "", << >>, FALSE)
NextFalse == Arg("false", "", << >>, FALSE)
NextError == Arg("error", "", << >>, FALSE)
\* next('/x'), next({ path: '/x' }) and next({ path: '/x', replace: true })
Redirects ==
    {Arg("redirect", "string", loc, FALSE) : loc \in Locations}
    \cup {Arg("redirect", "object", loc, r) : loc \in Locations, r \in BOOLEAN}
NextArgs == {Proceed, NextFalse, NextError} \cup Redirects
\* next(vm => ...): a function
Callback == Arg("function", "", << >>, FALSE)

\* util/warn.js isError(err)
isError(err) == err \in {"error", "NavigationDuplicated"}
\* util/warn.js isExtendedError(NavigationDuplicated, err)
isExtendedError(err) == err = "NavigationDuplicated"
\* whether a reason is truthy
Truthy(err) == err \in {"error", "NavigationDuplicated"}

\* the bookkeeping of one transitionTo call: how it was requested and by which
\* transition's redirect, the closure variables of confirmTransition (current,
\* activated, the two queues, postEnterCbs), whether its $nextTick job is
\* scheduled, the poll timers scheduled for it, and its history
NewTransition(via, origin) ==
    [via |-> via, origin |-> origin, from |-> START, activated |-> << >>,
     queue1 |-> << >>, queue2 |-> << >>, lazyPending |-> 0, lazyError |-> FALSE,
     lazyIndex |-> 0, superseded |-> FALSE, postEnterCbs |-> << >>,
     tick |-> FALSE, polls |-> {}, events |-> << >>]

\* mutation: every truthy reason flushes the ready-error callbacks
TransitionAbortedFlushing(W, t, err) ==
    LET W1 == Log(W, t, "onAbort", err, 0, "", 0)
    IN  IF Truthy(err)
        THEN LogEach([W1 EXCEPT !.ready = TRUE], t, "readyErrorCb", err, readyErrorCbs, 0)
        ELSE W1

\* mutation: the ready-error callbacks are flushed whatever the reason
TransitionAbortedAnyReason(W, t, err) ==
    LET W1 == Log(W, t, "onAbort", err, 0, "", 0)
    IN  IF ~W1.ready
        THEN LogEach([W1 EXCEPT !.ready = TRUE], t, "readyErrorCb", err, readyErrorCbs, 0)
        ELSE W1

\* the abort callback transitionTo hands to confirmTransition
TransitionAborted(W, t, err) ==
    LET W1 == Log(W, t, "onAbort", err, 0, "", 0)
    IN  IF Truthy(err) /\ ~W1.ready
        THEN LogEach([W1 EXCEPT !.ready = TRUE], t, "readyErrorCb", err, readyErrorCbs, 0)
        ELSE W1

\* mutation: no error is reported to the error listeners
abortSilent(W, t, err) == TransitionAborted(W, t, err)

\* abort(err) of confirmTransition
abort(W, t, err) ==
    LET W1 == IF ~isExtendedError(err) /\ isError(err)
              THEN IF Len(errorCbs) > 0
                   THEN LogEach(W, t, "errorCb", err, errorCbs, 0)
                   ELSE Log(W, t, "console.error", err, 0, "", 0)
              ELSE W
    IN  After(W1, TransitionAborted(W1, t, err))

\* mutation: updateRoute notifies the listener before it sets current
updateRouteListenerFirst(W, t) ==
    LET W1 == IF listener THEN Log(W, t, "listener", "", t, "", 0) ELSE W
        W2 == [W1 EXCEPT !.current = t]
    IN  LogEach(W2, t, "afterEach", "", afterHooks, W.current)

\* mutation: updateRoute calls the afterEach hooks before it sets current
updateRouteHooksFirst(W, t) ==
    LET W1 == LogEach(W, t, "afterEach", "", afterHooks, W.current)
        W2 == [W1 EXCEPT !.current = t]
    IN  IF listener THEN Log(W2, t, "listener", "", t, "", 0) ELSE W2

\* updateRoute(route)
updateRoute(W, t) ==
    LET prev == W.current
        W1 == [W EXCEPT !.current = t]
        W2 == IF listener THEN Log(W1, t, "listener", "", t, "", 0) ELSE W1
    IN  LogEach(W2, t, "afterEach", "", afterHooks, prev)

\* the success callback transitionTo hands to confirmTransition
\* mutation: the first commit sets ready and calls no ready callback
TransitionConfirmedSilent(W, t) ==
    LET W1 == updateRoute(W, t)
        W2 == Log(W1, t, "onComplete", "", 0, "", 0)
        W3 == Log(W2, t, "ensureURL", "", 0, "", 0)
    IN  [W3 EXCEPT !.ready = TRUE]

TransitionConfirmed(W, t) ==
    LET W1 == updateRoute(W, t)
        W2 == Log(W1, t, "onComplete", "", 0, "", 0)
        W3 == Log(W2, t, "ensureURL", "", 0, "", 0)
    IN  IF ~W3.ready
        THEN LogEach([W3 EXCEPT !.ready = TRUE], t, "readyCb", "", readyCbs, 0)
        ELSE W3

Queue(W, t, phase) == IF phase = 1 THEN W.trans[t].queue1 ELSE W.trans[t].queue2

\* whether transition t is suspended inside a guard or a lazy view
Suspended(W, t) ==
    \/ \E c \in W.conts : c.t = t
    \/ \E f \in W.factories : f.t = t

\* this.pending = route; a transition that was pending and suspended is from
\* then on superseded
SetPending(W, t) ==
    LET old == W.pending
        W1 == IF old # NullRoute /\ old # t /\ Suspended(W, old)
              THEN [W EXCEPT !.trans[old].superseded = TRUE]
              ELSE W
    IN  [W1 EXCEPT !.pending = t]

\* the views of the activated records that are still factories
AsyncViews(W, t) ==
    LET pairs == flatMapComponents(W.table, W.trans[t].activated)
    IN  {[t |-> t, rec |-> pairs[k].rec, slot |-> pairs[k].view.slot] :
            k \in {j \in 1..Len(pairs) : IsFactory(W, pairs[j].rec, pairs[j].view)}}

RECURSIVE step(_, _, _, _)
RECURSIVE iterator(_, _, _, _)
RECURSIVE InvokeHook(_, _, _, _)
RECURSIVE Continue(_, _, _, _, _)
RECURSIVE QueueDone(_, _, _)
RECURSIVE resolveAsyncComponents(_, _, _)
RECURSIVE confirmTransition(_, _)
RECURSIVE transitionTo(_, _, _, _)

\* what a guard does when it is invoked: it returns and keeps its
\* continuation, it throws, or it calls next() and then throws
ThrowMode(hook) == IF hook \in DOMAIN throwers THEN throwers[hook] ELSE "returns"

\* mutation: the iterator does not catch what the hook throws
InvokeHookUncaught(W, t, phase, index) ==
    LET hook == Queue(W, t, phase)[index]
        W1 == Log(W, t, "guard", hook.kind, hook.id, hook.slot, phase)
    IN  IF ThrowMode(hook) = "returns"
        THEN [W1 EXCEPT !.conts = @ \cup {[t |-> t, phase |-> phase, index |-> index]}]
        ELSE Log(W1, t, "catch", hook.kind, hook.id, hook.slot, phase)

\* try { hook(route, current, to => ...) } catch (e) { abort(e) }: the hook
\* is invoked; one that returns keeps its continuation until it calls it
InvokeHook(W, t, phase, index) ==
    LET hook == Queue(W, t, phase)[index]
        W1 == Log(W, t, "guard", hook.kind, hook.id, hook.slot, phase)
    IN  IF ThrowMode(hook) = "returns"
        THEN [W1 EXCEPT !.conts = @ \cup {[t |-> t, phase |-> phase, index |-> index]}]
        ELSE LET W2 == IF ThrowMode(hook) = "next, throws"
                       THEN Continue(W1, t, phase, index, Proceed)
                       ELSE W1
                 W3 == After(W2, Log(W2, t, "catch", hook.kind, hook.id, hook.slot, phase))
             IN  After(W3, abort(W3, t, "error"))

\* mutation: the iterator invokes the hook without looking at pending
iteratorUnchecked(W, t, phase, index) ==
    LET hook == Queue(W, t, phase)[index]
    IN  IF hook.kind = "lazy"
        THEN resolveAsyncComponents(Log(W, t, "lazy", "", 0, "", 0), t, index)
        ELSE InvokeHook(W, t, phase, index)

\* iterator(hook, next)
iterator(W, t, phase, index) ==
    IF W.pending # t THEN abort(W, t, "undefined")
    ELSE LET hook == Queue(W, t, phase)[index]
         IN  IF hook.kind = "lazy"
             THEN resolveAsyncComponents(Log(W, t, "lazy", "", 0, "", 0), t, index)
             ELSE InvokeHook(W, t, phase, index)

\* runQueue's step(index), index counted from 1
step(W, t, phase, index) ==
    LET queue == Queue(W, t, phase)
    IN  IF index > Len(queue) THEN QueueDone(W, t, phase)
        ELSE IF queue[index].kind # "null" THEN iterator(W, t, phase, index)
        ELSE step(W, t, phase, index + 1)

\* the function resolveAsyncComponents(activated) returns, called as a hook:
\* every factory is called and its promise awaited; without factories next()
resolveAsyncComponents(W, t, index) ==
    LET async == AsyncViews(W, t)
    IN  IF async = {} THEN Continue(W, t, 1, index, Proceed)
        ELSE [W EXCEPT !.trans[t].lazyPending = Cardinality(async),
                       !.trans[t].lazyIndex = index,
                       !.factories = @ \cup async]

\* mutation: a redirect always goes through push
RedirectViaPush(arg) == "push"

\* typeof to === 'object' && to.replace ? this.replace(to) : this.push(to)
RedirectVia(arg) == IF arg.form = "object" /\ arg.replace THEN "replace" ELSE "push"

\* mutation: next(false) leaves the URL alone
ContinueNoEnsure(W, t, phase, index, arg) ==
    IF arg.kind = "false" \/ arg.kind = "error"
    THEN abort(W, t, arg.kind)
    ELSE IF arg.kind = "redirect"
    THEN LET W1 == abort(W, t, "undefined")
         IN  After(W1, transitionTo(W1, arg.loc, RedirectVia(arg), t))
    ELSE step(W, t, phase, index + 1)

\* the callback the iterator passes to the hook as next
Continue(W, t, phase, index, arg) ==
    IF arg.kind = "false" \/ arg.kind = "error"
    THEN LET W1 == Log(W, t, "ensureURL", "true", 0, "", 0)
         IN  After(W1, abort(W1, t, arg.kind))
    ELSE IF arg.kind = "redirect"
    THEN LET W1 == abort(W, t, "undefined")
         IN  After(W1, transitionTo(W1, arg.loc, RedirectVia(arg), t))
    ELSE step(W, t, phase, index + 1)

\* the function bindEnterGuard passes to the guard as next: a function given
\* to it is pushed on postEnterCbs, and next(cb) is called
routeEnterGuard(W, t, phase, index, arg) ==
    LET hook == Queue(W, t, phase)[index]
    IN  IF hook.kind = "enter" /\ arg.kind = "function"
        THEN LET W1 == [W EXCEPT !.trans[t].postEnterCbs =
                                      Append(@, [rec |-> hook.id, slot |-> hook.slot])]
             IN  After(W1, Continue(W1, t, phase, index, arg))
        ELSE Continue(W, t, phase, index, arg)

\* mutation: the callback of the second runQueue does not look at pending
QueueDoneUnchecked(W, t, phase) ==
    IF phase = 1
    THEN LET queue == extractEnterGuards(W, W.trans[t].activated)
                      \o HookGuards("beforeResolve", resolveHooks)
         IN  IF Throws(queue) THEN Log(W, t, "throw", "TypeError", 0, "", 0)
             ELSE LET W1 == [W EXCEPT !.trans[t].queue2 = queue]
                  IN  After(W1, step(W1, t, 2, 1))
    ELSE LET W1 == [W EXCEPT !.pending = NullRoute]
             W2 == After(W1, TransitionConfirmed(W1, t))
         IN  After(W2, [W2 EXCEPT !.trans[t].tick = TRUE])

\* the callbacks of the two runQueue calls in confirmTransition
QueueDone(W, t, phase) ==
    IF phase = 1
    THEN LET queue == extractEnterGuards(W, W.trans[t].activated)
                      \o HookGuards("beforeResolve", resolveHooks)
         IN  IF Throws(queue) THEN Log(W, t, "throw", "TypeError", 0, "", 0)
             ELSE LET W1 == [W EXCEPT !.trans[t].queue2 = queue]
                  IN  After(W1, step(W1, t, 2, 1))
    ELSE IF W.pending # t THEN abort(W, t, "undefined")
    ELSE LET W1 == [W EXCEPT !.pending = NullRoute]
             W2 == After(W1, TransitionConfirmed(W1, t))
         IN  After(W2, [W2 EXCEPT !.trans[t].tick = TRUE])

\* mutation: a transition to the current route runs its guards
SameRouteNever(route, cur) == FALSE

\* isSameRoute(route, current) && route.matched.length === current.matched.length
SameRoute(route, cur) ==
    isSameRoute(route, cur) /\ Len(route.matched) = Len(cur.matched)

\* mutation: the global before hooks run ahead of the leave guards
QueueHooksFirst(W, rq) ==
    HookGuards("beforeEach", beforeHooks)
    \o extractLeaveGuards(W, rq.deactivated)
    \o extractUpdateHooks(W, rq.updated)
    \o BeforeEnterGuards(W.table, rq.activated)
    \o <<LazyGuard>>

\* the first guard queue of confirmTransition
FirstQueue(W, rq) ==
    extractLeaveGuards(W, rq.deactivated)
    \o HookGuards("beforeEach", beforeHooks)
    \o extractUpdateHooks(W, rq.updated)
    \o BeforeEnterGuards(W.table, rq.activated)
    \o <<LazyGuard>>

\* confirmTransition(route, onComplete, onAbort)
\* mutation: pending is set to the route ahead of the test for a transition
\* to the current route
confirmTransitionPendingFirst(W, t) ==
    LET route == W.routeHeap[t]
        cur == RouteOf(W, W.current)
    IN  IF SameRoute(route, cur)
        THEN LET W0 == SetPending(W, t)
                 W1 == Log(W0, t, "ensureURL", "", 0, "", 0)
             IN  After(W1, abort(W1, t, "NavigationDuplicated"))
        ELSE LET rq == resolveQueue(cur.matched, route.matched)
                 queue == FirstQueue(W, rq)
             IN  IF Throws(queue) THEN Log(W, t, "throw", "TypeError", 0, "", 0)
                 ELSE LET W1 == SetPending(
                                  [W EXCEPT !.trans[t].from = W.current,
                                            !.trans[t].activated = rq.activated,
                                            !.trans[t].queue1 = queue], t)
                      IN  After(W1, step(W1, t, 1, 1))

confirmTransition(W, t) ==
    LET route == W.routeHeap[t]
        cur == RouteOf(W, W.current)
    IN  IF SameRoute(route, cur)
        THEN LET W1 == Log(W, t, "ensureURL", "", 0, "", 0)
             IN  After(W1, abort(W1, t, "NavigationDuplicated"))
        ELSE LET rq == resolveQueue(cur.matched, route.matched)
                 queue == FirstQueue(W, rq)
             IN  IF Throws(queue) THEN Log(W, t, "throw", "TypeError", 0, "", 0)
                 ELSE LET W1 == SetPending(
                                  [W EXCEPT !.trans[t].from = W.current,
                                            !.trans[t].activated = rq.activated,
                                            !.trans[t].queue1 = queue], t)
                      IN  After(W1, step(W1, t, 1, 1))

\* transitionTo(location, onComplete, onAbort); via tells whether the call is
\* the initial one, a push or a replace, origin the transition whose guard
\* redirected here (START when none did)
transitionTo(W, loc, via, origin) ==
    LET t == Len(W.routeHeap) + 1
        W1 == [W EXCEPT !.routeHeap = Append(@, match(W.table, loc)),
                        !.trans = Append(@, NewTransition(via, origin))]
    IN  After(W1, confirmTransition(W1, t))

\* ----------------------------------------------------------------- actions

Store(W) ==
    /\ current' = W.current
    /\ pending' = W.pending
    /\ ready' = W.ready
    /\ routeHeap' = W.routeHeap
    /\ trans' = W.trans
    /\ conts' = W.conts
    /\ factories' = W.factories
    /\ resolved' = W.resolved

listenerVars == <<readyCbs, readyErrorCbs, errorCbs, listener>>
hookVars == <<beforeHooks, resolveHooks, afterHooks>>

\* the first build of the table, for the router the transitions run on
InitEngineTable ==
    LET T == createRouteMap(EmptyTable, EngineRoutes)
    IN  /\ pathList = T.pathList
        /\ pathMap = T.pathMap
        /\ nameMap = T.nameMap
        /\ records = T.records
        /\ regLog = T.regLog
        /\ prePin = T.prePin
        /\ addCalls = 0

\* router.init(app): history.transitionTo(history.getCurrentLocation(), ...),
\* then history.listen(cb)
init(loc) ==
    /\ routeHeap = << >>
    /\ Len(routeHeap) < MaxTransitions
    /\ Store(transitionTo(World, loc, "init", START))
    /\ listener' = TRUE
    /\ UNCHANGED <<readyCbs, readyErrorCbs, errorCbs, hookVars, instances,
                   tableVars, diffVars, matchVars, unregVars, readyLog, unitVars>>

\* router.push(location) and router.replace(location) of the running
\* router, while fewer than max transitions were started
NavigateUpTo(loc, via, max) ==
    /\ listener
    /\ Len(routeHeap) < max
    /\ Store(transitionTo(World, loc, via, START))
    /\ UNCHANGED <<listenerVars, hookVars, instances, tableVars, diffVars, matchVars, unregVars, readyLog, unitVars>>

Navigate(loc, via) == NavigateUpTo(loc, via, MaxTransitions)

\* mutation: the promise of a factory is fulfilled and the count of the
\* pending factories is not looked at
FactoryResolveForgets(f) ==
    /\ f \in factories
    /\ Store([World EXCEPT !.factories = @ \ {f},
                           !.resolved = @ \cup {<<f.rec, f.slot>>},
                           !.trans[f.t].lazyPending = @ - 1])
    /\ UNCHANGED <<listenerVars, hookVars, instances, tableVars, diffVars, matchVars, unregVars, readyLog, unitVars>>

\* a guard that was invoked calls next(arg)
GuardNext(c, arg) ==
    /\ c \in conts
    /\ arg.kind = "redirect" => Len(routeHeap) < MaxTransitions
    /\ Store(routeEnterGuard([World EXCEPT !.conts = @ \ {c}],
                             c.t, c.phase, c.index, arg))
    /\ UNCHANGED <<listenerVars, hookVars, instances, tableVars, diffVars, matchVars, unregVars, readyLog, unitVars>>

\* the promise of a factory is fulfilled: resolve(resolvedDef)
FactoryResolve(f) ==
    /\ f \in factories
    /\ LET W1 == [World EXCEPT !.factories = @ \ {f},
                               !.resolved = @ \cup {<<f.rec, f.slot>>},
                               !.trans[f.t].lazyPending = @ - 1]
       IN  Store(IF W1.trans[f.t].lazyPending <= 0
                 THEN Continue(W1, f.t, 1, W1.trans[f.t].lazyIndex, Proceed)
                 ELSE W1)
    /\ UNCHANGED <<listenerVars, hookVars, instances, tableVars, diffVars, matchVars, unregVars, readyLog, unitVars>>

\* the promise of a factory is rejected: reject(reason)
FactoryReject(f) ==
    /\ f \in factories
    /\ LET W1 == [World EXCEPT !.factories = @ \ {f}]
       IN  Store(IF ~W1.trans[f.t].lazyError
                 THEN Continue([W1 EXCEPT !.trans[f.t].lazyError = TRUE],
                               f.t, 1, W1.trans[f.t].lazyIndex, NextError)
                 ELSE W1)
    /\ UNCHANGED <<listenerVars, hookVars, instances, tableVars, diffVars, matchVars, unregVars, readyLog, unitVars>>

HooksRegistered == Len(beforeHooks) + Len(resolveHooks) + Len(afterHooks)
ListenersRegistered == Len(readyCbs) + Len(readyErrorCbs) + Len(errorCbs)

\* registerHook(list, fn): list.push(fn)
registerHook(list, fn) == Append(list, fn)

\* router.beforeEach(fn)
beforeEach(fn) ==
    /\ HooksRegistered < MaxHooks
    /\ fn = HooksRegistered + 1
    /\ beforeHooks' = registerHook(beforeHooks, fn)
    /\ UNCHANGED <<resolveHooks, afterHooks, listenerVars, instances,
                   current, pending, ready, routeHeap, trans, conts, factories,
                   resolved, tableVars, diffVars, matchVars, unregVars, readyLog, unitVars>>

\* router.beforeResolve(fn)
beforeResolve(fn) ==
    /\ HooksRegistered < MaxHooks
    /\ fn = HooksRegistered + 1
    /\ resolveHooks' = registerHook(resolveHooks, fn)
    /\ UNCHANGED <<beforeHooks, afterHooks, listenerVars, instances,
                   current, pending, ready, routeHeap, trans, conts, factories,
                   resolved, tableVars, diffVars, matchVars, unregVars, readyLog, unitVars>>

\* router.afterEach(fn)
afterEach(fn) ==
    /\ HooksRegistered < MaxHooks
    /\ fn = HooksRegistered + 1
    /\ afterHooks' = registerHook(afterHooks, fn)
    /\ UNCHANGED <<beforeHooks, resolveHooks, listenerVars, instances,
                   current, pending, ready, routeHeap, trans, conts, factories,
                   resolved, tableVars, diffVars, matchVars, unregVars, readyLog, unitVars>>

\* history.onReady(cb, errorCb): when ready, cb() is called; otherwise both
\* callbacks are queued
onReady(cb, errorCb) ==
    /\ ListenersRegistered + Len(readyLog) < MaxListeners
    /\ cb = MaxHooks + ListenersRegistered + Len(readyLog) + 1
    /\ IF ready
       THEN /\ readyLog' = Append(readyLog, [fn |-> cb, as |-> "cb"])
            /\ UNCHANGED <<readyCbs, readyErrorCbs>>
       ELSE /\ readyCbs' = Append(readyCbs, cb)
            /\ readyErrorCbs' = Append(readyErrorCbs, errorCb)
            /\ UNCHANGED readyLog
    /\ UNCHANGED <<errorCbs, listener, hookVars, instances,
                   current, pending, ready, routeHeap, trans, conts, factories,
                   resolved, tableVars, diffVars, matchVars, unregVars, unitVars>>

\* history.onError(errorCb)
onError(errorCb) ==
    /\ ListenersRegistered < MaxListeners
    /\ errorCb = MaxHooks + ListenersRegistered + 1
    /\ errorCbs' = Append(errorCbs, errorCb)
    /\ UNCHANGED <<readyCbs, readyErrorCbs, listener, hookVars, instances,
                   current, pending, ready, routeHeap, trans, conts, factories,
                   resolved, tableVars, diffVars, matchVars, unregVars, readyLog, unitVars>>

\* the views the current route renders
Rendered ==
    LET pairs == flatMapComponents(CurrentTable, RouteOf(World, current).matched)
    IN  {<<pairs[k].rec, pairs[k].view.slot>> : k \in 1..Len(pairs)}

\* the views render after a change of route: registerInstance(vm, callVal)
\* sets match.instances[name] for the views created and clears it for the
\* views destroyed
render ==
    /\ instances # Rendered
    /\ instances' = Rendered
    /\ UNCHANGED <<listenerVars, hookVars,
                   current, pending, ready, routeHeap, trans, conts, factories,
                   resolved, tableVars, diffVars, matchVars, unregVars, readyLog, unitVars>>

\* the most timers poll sets for one transition
MaxPolls == 2

\* mutation: poll retries whatever the current route is
pollAlways(W, t, cb) ==
    IF <<cb.rec, cb.slot>> \in instances
    THEN Log(W, t, "enterCb", "", cb.rec, cb.slot, 0)
    ELSE [Log(W, t, "setTimeout", "", cb.rec, cb.slot, 0)
             EXCEPT !.trans[t].polls = @ \cup {cb}]

\* poll(cb, match.instances, key, isValid), isValid being
\* () => this.current === route
poll(W, t, cb) ==
    IF <<cb.rec, cb.slot>> \in instances
    THEN Log(W, t, "enterCb", "", cb.rec, cb.slot, 0)
    ELSE IF W.current = t
    THEN [Log(W, t, "setTimeout", "", cb.rec, cb.slot, 0)
             EXCEPT !.trans[t].polls = @ \cup {cb}]
    ELSE W

RECURSIVE PollEach(_, _, _)
\* postEnterCbs.forEach(cb => { cb() }) from entry k on
PollEach(W, t, k) ==
    IF k > Len(W.trans[t].postEnterCbs) THEN W
    ELSE LET W1 == poll(W, t, W.trans[t].postEnterCbs[k])
         IN  After(W1, PollEach(W1, t, k + 1))

\* the job confirmTransition gave to $nextTick runs
nextTick(t) ==
    /\ t \in 1..Len(trans)
    /\ trans[t].tick
    /\ Store(PollEach([World EXCEPT !.trans[t].tick = FALSE], t, 1))
    /\ UNCHANGED <<listenerVars, hookVars, instances, tableVars, diffVars, matchVars, unregVars, readyLog, unitVars>>

\* how often poll has set a timer for transition t
Timeouts(W, t) ==
    Cardinality({i \in 1..Len(W.trans[t].events) :
                    W.trans[t].events[i].what = "setTimeout"})

\* a timer set by poll fires: poll(cb, instances, key, isValid) again; the
\* timers that would only be set again are counted up to MaxPolls
pollTimer(t, cb) ==
    /\ t \in 1..Len(trans)
    /\ cb \in trans[t].polls
    /\ \/ <<cb.rec, cb.slot>> \in instances
       \/ current # t
       \/ Timeouts(World, t) < MaxPolls
    /\ Store(poll([World EXCEPT !.trans[t].polls = @ \ {cb}], t, cb))
    /\ UNCHANGED <<listenerVars, hookVars, instances, tableVars, diffVars, matchVars, unregVars, readyLog, unitVars>>

\* ---------------------------------------------------- router.addRoutes

pE == <<"/", "e">>
pX == <<"/", "x">>

\* the routes of the router addRoutes is called on: those of the engine and
\* the wildcard
RouterRoutes ==
    EngineRoutes
    \o << Guarded(Leaf(Star, Undefined), FALSE,
                  <<View("default", "component", FALSE, FALSE, FALSE)>>) >>

\* the route lists given to router.addRoutes: /e on its own, and /e as the
\* absolute child of /x
RouterAdditions ==
    { << Guarded(Leaf(pE, Undefined), FALSE,
                 <<View("default", "component", FALSE, FALSE, FALSE)>>) >>,
      << Guarded(Decl(pX, Undefined, << >>,
                      << Guarded(Leaf(pE, Undefined), FALSE,
                                 <<View("default", "component", FALSE, FALSE, FALSE)>>) >>,
                      FALSE),
                 FALSE, <<View("default", "component", FALSE, FALSE, FALSE)>>) >> }

\* the locations of the navigation requests on that router
RouterLocations == {pA \o Slash \o pB, pE}

InitRouterTable ==
    LET T == createRouteMap(EmptyTable, RouterRoutes)
    IN  /\ pathList = T.pathList
        /\ pathMap = T.pathMap
        /\ nameMap = T.nameMap
        /\ records = T.records
        /\ regLog = T.regLog
        /\ prePin = T.prePin
        /\ addCalls = 0

\* history.getCurrentLocation(): the location of the current route
getCurrentLocation == RouteOf(World, current).path

\* mutation: addRoutes resolves the current location again in every state
StartedAlways(route) == TRUE

\* this.history.current !== START
Started(route) == route # START

\* router.addRoutes(routes): matcher.addRoutes(routes), then, unless current
\* is START, history.transitionTo(history.getCurrentLocation()) on the table
\* as it is then
routerAddRoutes(routes) ==
    LET T == createRouteMap(CurrentTable, routes)
        W == [World EXCEPT !.table = T]
    IN  /\ addCalls < MaxAddRoutes
        /\ Started(current) => Len(routeHeap) < MaxTransitions
        /\ pathList' = T.pathList
        /\ pathMap' = T.pathMap
        /\ nameMap' = T.nameMap
        /\ records' = T.records
        /\ regLog' = T.regLog
        /\ prePin' = T.prePin
        /\ addCalls' = addCalls + 1
        /\ IF Started(current)
           THEN Store(transitionTo(W, getCurrentLocation, "addRoutes", START))
           ELSE Store(W)
        /\ UNCHANGED <<listenerVars, hookVars, instances, diffVars, matchVars, unregVars, readyLog, unitVars>>

\* -------------------------------------------------------------- match calls

pU == <<"/", "u", "/", ":i", "/", ":t?">>
pU1 == <<"/", "u", "/", "1">>

\* the route declarations of the tables match is called on
MatchDeclarations ==
    { \* /u/:i/:t?
      Leaf(pU, "U"),
      \* /u/1, which the pattern above matches as well
      Leaf(pU1, "S"),
      \* a named parent with a default child and a named child
      Decl(pA, "A", << >>, <<Leaf(pEmpty, Undefined), Leaf(pB, "B")>>, FALSE) }

MatchRouteLists == SeqsUpTo(MatchDeclarations, MaxRoutes)

\* the params objects: every assignment of values to some of the names, "z"
\* being the name of no parameter of any record
ParamNames == {"i", "t", "z"}
ParamValues == {<<"1">>, <<"2">>}
ParamMaps == UNION {[S -> ParamValues] : S \in SUBSET ParamNames}

\* the locations given to match: by name ("N" is the name of no record), or
\* by path
MatchNames == {"U", "S", "A", "B", "N"}
MatchPaths ==
    {pU1, pU1 \o <<"/", "2">>, <<"/", "u">>, pA, pA \o Slash \o pB, <<"/", "z">>}
MatchLocations ==
    {[name |-> n, path |-> NoPath, params |-> ps] : n \in MatchNames, ps \in ParamMaps}
    \cup {[name |-> Undefined, path |-> path, params |-> NoParams] : path \in MatchPaths}

InitMatchTable ==
    \E routes \in MatchRouteLists :
        LET T == createRouteMap(EmptyTable, routes)
        IN  /\ pathList = T.pathList
            /\ pathMap = T.pathMap
            /\ nameMap = T.nameMap
            /\ records = T.records
            /\ regLog = T.regLog
            /\ prePin = T.prePin
            /\ addCalls = 0

IdleMatch ==
    /\ mLocation = [name |-> Undefined, path |-> NoPath, params |-> NoParams]
    /\ mCurrentParams = NoParams
    /\ mParams = NoParams
    /\ mRoute = StartRoute
    /\ mAgain = StartRoute
    /\ mPhase = 0

InitMatch ==
    /\ mLocation \in MatchLocations
    /\ mCurrentParams \in ParamMaps
    /\ mParams = NoParams
    /\ mRoute = StartRoute
    /\ mAgain = StartRoute
    /\ mPhase = 0

\* matcher.match(location, currentRoute)
MatchCall ==
    /\ mPhase = 0
    /\ LET result == matchLocation(CurrentTable, mLocation, mCurrentParams)
       IN  /\ mRoute' = result.route
           /\ mParams' = result.params
    /\ mPhase' = 1
    /\ UNCHANGED <<mLocation, mCurrentParams, mAgain, tableVars, diffVars, unregVars,
                   readyLog, engineVars, unitVars>>

\* matcher.match(route.path) on the path of the Route the first call returned
MatchAgain ==
    /\ mPhase = 1
    /\ mAgain' = matchLocation(CurrentTable,
                     [name |-> Undefined, path |-> mRoute.path, params |-> NoParams],
                     mCurrentParams).route
    /\ mPhase' = 2
    /\ UNCHANGED <<mLocation, mCurrentParams, mParams, mRoute, tableVars, diffVars,
                   unregVars, readyLog, engineVars, unitVars>>

\* ------------------------------------------- match on redirecting records

\* the redirects a call of match may go through before the history of its
\* calls is closed
MaxRedirects == 4

\* a normalized location: name, path, query, hash and params
Loc(name, path, query, hash, params) ==
    [name |-> name, path |-> path, query |-> query, hash |-> hash, params |-> params]
NoLocation == Loc(Undefined, NoPath, NoQuery, NoQuery, NoParams)

\* currentRoute or redirectedFrom when the argument is not given
NotGiven == [defined |-> FALSE, params |-> NoParams, location |-> NoLocation]
\* a currentRoute with these params
CurrentRoute(params) == [defined |-> TRUE, params |-> params, location |-> NoLocation]
\* a redirectedFrom location
From(location) == [defined |-> TRUE, params |-> NoParams, location |-> location]

\* match(raw, currentRoute, redirectedFrom), raw being normalized
MatchArgs(location, currentRoute, redirectedFrom) ==
    [location |-> location, currentRoute |-> currentRoute,
     redirectedFrom |-> redirectedFrom]

\* match up to its call of _createRoute: the record it found (NoRecord for
\* null) and the location as match leaves it, with the params added from
\* currentRoute and the filled path for a name, with the groups of the match
\* as params for a path
FindRecord(T, call) ==
    LET location == call.location
    IN  IF location.name # Undefined
        THEN IF location.name \notin DOMAIN T.nameMap
             THEN [record |-> NoRecord, location |-> location]
             ELSE LET record == T.nameMap[location.name]
                      params == IF call.currentRoute.defined
                                THEN InheritParams(location.params,
                                                   call.currentRoute.params,
                                                   paramNames(T.records[record]))
                                ELSE location.params
                  IN  [record |-> record,
                       location |-> [location EXCEPT
                                        !.params = params,
                                        !.path = fillParams(T.records[record].path, params)]]
        ELSE IF location.path # NoPath /\ Len(location.path) > 0
        THEN LET record == ScanPathList(T, location.path, 1)
             IN  [record |-> record,
                  location |-> [location EXCEPT
                                   !.params = IF record = NoRecord THEN NoParams
                                              ELSE matchParams(T.records[record].regex,
                                                               location.path)]]
        ELSE [record |-> NoRecord, location |-> location]

\* util/route.js createRoute(record, location, redirectedFrom): the path, the
\* chain, and the query, hash and params of the location
RouteFor(T, record, location) ==
    [path |-> IF location.path = NoPath \/ Len(location.path) = 0
              THEN Slash ELSE location.path,
     matched |-> formatMatch(T, record),
     query |-> location.query, hash |-> location.hash, params |-> location.params]

\* resolveRecordPath(path, record), for a path that starts with a slash
resolveRecordPath(path, record) == path

\* what _createRoute does: it returns a Route, or it enters match again
Returns(route) == [enters |-> FALSE, route |-> route, call |-> MatchArgs(NoLocation, NotGiven, NotGiven)]
Enters(call) == [enters |-> TRUE, route |-> RouteFor(EmptyTable, NoRecord, NoLocation), call |-> call]

\* mutation: a redirect gives the failed Route
redirectFails(T, record, location) == Returns(RouteFor(T, NoRecord, location))

\* redirect(record, location), for a redirect option that is a string or an
\* object
redirect(T, record, location) ==
    LET originalRedirect == T.records[record].redirect
        has == IF originalRedirect.kind = "string" THEN {"path"} ELSE originalRedirect.has
        re == originalRedirect
        query == IF "query" \in has THEN re.query ELSE location.query
        hash == IF "hash" \in has THEN re.hash ELSE location.hash
        params == IF "params" \in has THEN re.params ELSE location.params
    IN  IF "name" \in has
        THEN Enters(MatchArgs(Loc(re.name, NoPath, query, hash, params),
                              NotGiven, From(location)))
        ELSE IF "path" \in has
        THEN LET rawPath == resolveRecordPath(re.path, record)
                 resolvedPath == fillParams(rawPath, params)
             IN  Enters(MatchArgs(Loc(Undefined, resolvedPath, query, hash, NoParams),
                                  NotGiven, From(location)))
        ELSE Returns(RouteFor(T, NoRecord, location))

\* _createRoute(record, location, redirectedFrom)
createRouteOrEnter(T, record, location, redirectedFrom) ==
    IF record # NoRecord /\ T.records[record].redirect.kind # "undefined"
    THEN redirect(T, record,
                  IF redirectedFrom.defined THEN redirectedFrom.location ELSE location)
    ELSE IF record # NoRecord /\ T.records[record].matchAs # NoPath
    THEN LET aliased == alias(T, record, location.path, location.params)
         IN  Returns([RouteFor(T, NoRecord, [location EXCEPT !.params = aliased.params])
                          EXCEPT !.matched = aliased.route.matched])
    ELSE Returns(RouteFor(T, record, location))

\* the call of match that is running, up to the return of _createRoute
MatchBody(T, call) ==
    LET found == FindRecord(T, call)
    IN  createRouteOrEnter(T, found.record, found.location, call.redirectedFrom)

IdleRedirect ==
    /\ rCall = MatchArgs(NoLocation, NotGiven, NotGiven)
    /\ rCalls = << >>
    /\ rRoute = << >>

\* match runs to a redirect and is entered again, from redirect
matchEnters ==
    /\ Len(rCalls) > 0
    /\ Len(rCalls) <= MaxRedirects
    /\ rRoute = << >>
    /\ MatchBody(CurrentTable, rCall).enters
    /\ rCall' = MatchBody(CurrentTable, rCall).call
    /\ rCalls' = Append(rCalls, rCall')
    /\ UNCHANGED <<rRoute, tableVars, diffVars, matchVars, unregVars, readyLog,
                   engineVars, lazyVars, queueVars, throwers>>

\* match runs to its return: every call that was entered returns its Route
matchReturns ==
    /\ Len(rCalls) > 0
    /\ rRoute = << >>
    /\ ~MatchBody(CurrentTable, rCall).enters
    /\ rRoute' = <<MatchBody(CurrentTable, rCall).route>>
    /\ UNCHANGED <<rCall, rCalls, tableVars, diffVars, matchVars, unregVars, readyLog,
                   engineVars, lazyVars, queueVars, throwers>>

\* ---------------------------------------------- hooks and their unregistering

\* the registrations, unregister functions kept, made on one router
MaxRegistrations == 3

\* the functions registered as hooks
HookFunctions == {1, 2}
HookLists == {"beforeHooks", "resolveHooks", "afterHooks"}

HookList(which) ==
    IF which = "beforeHooks" THEN beforeHooks
    ELSE IF which = "resolveHooks" THEN resolveHooks
    ELSE afterHooks

SetHookList(which, list) ==
    /\ beforeHooks' = IF which = "beforeHooks" THEN list ELSE beforeHooks
    /\ resolveHooks' = IF which = "resolveHooks" THEN list ELSE resolveHooks
    /\ afterHooks' = IF which = "afterHooks" THEN list ELSE afterHooks

IdleUnreg ==
    /\ unregs = << >>
    /\ entries = [which \in HookLists |-> << >>]

\* list.indexOf(fn), 1-based here and 0 for -1
indexOf(list, fn) ==
    IF \E i \in 1..Len(list) : list[i] = fn
    THEN CHOOSE i \in 1..Len(list) :
             list[i] = fn /\ \A j \in 1..(i - 1) : list[j] # fn
    ELSE 0

\* router.beforeEach(fn), router.beforeResolve(fn) or router.afterEach(fn)
\* according to the list, by a caller that keeps the function returned
register(which, fn) ==
    /\ Len(unregs) < MaxRegistrations
    /\ SetHookList(which, registerHook(HookList(which), fn))
    /\ unregs' = Append(unregs, [list |-> which, fn |-> fn, calls |-> 0])
    /\ entries' = [entries EXCEPT ![which] = Append(@, Len(unregs) + 1)]
    /\ UNCHANGED <<listenerVars, instances, readyLog, current, pending, ready,
                   routeHeap, trans, conts, factories, resolved, tableVars,
                   diffVars, matchVars, unitVars>>

\* the function registerHook returned is called:
\*   const i = list.indexOf(fn); if (i > -1) list.splice(i, 1)
unregister(r) ==
    /\ r \in 1..Len(unregs)
    /\ unregs[r].calls < 2
    /\ LET which == unregs[r].list
           i == indexOf(HookList(which), unregs[r].fn)
       IN  IF i > 0
           THEN /\ SetHookList(which, Splice(HookList(which), i))
                /\ entries' = [entries EXCEPT ![which] = Splice(@, i)]
           ELSE UNCHANGED <<hookVars, entries>>
    /\ unregs' = [unregs EXCEPT ![r].calls = @ + 1]
    /\ UNCHANGED <<listenerVars, instances, readyLog, current, pending, ready,
                   routeHeap, trans, conts, factories, resolved, tableVars,
                   diffVars, matchVars, unitVars>>

\* ---------------------------------------------------------- throwing guards

\* the guards that may throw: the beforeEnter guards of /a/b and of /d and
\* the beforeRouteEnter guard of the component of /a
ThrowingGuards ==
    {Guard("beforeEnter", 2, ""), Guard("beforeEnter", 4, ""),
     Guard("enter", 1, "default")}

ThrowModes == {"returns", "throws", "next, throws"}

InitThrowers == throwers \in [ThrowingGuards -> ThrowModes]

\* -------------------------------------------------- resolveAsyncComponents

\* the most views a matched chain has
MaxViews == 3

\* what m.components[key] is: a component, or a factory that calls resolve
\* while it is being invoked, that throws while it is being invoked, or that
\* returns and settles later (through the functions it was given or through
\* the promise it returned)
ViewKinds == {"component", "resolves", "throws", "later"}

\* typeof def === 'function' && def.cid === undefined
Factories(views) == {k \in 1..Len(views) : views[k] # "component"}

\* let hasAsync = false, pending = 0, error = null
NewClosure ==
    [hasAsync |-> FALSE, pending |-> 0, error |-> FALSE, visited |-> {},
     resolveCalled |-> {}, rejectCalled |-> {}, replaced |-> {}, calls |-> << >>]

\* next(arg) of the lazy-view step: the call is recorded with the views
\* visited and the components replaced so far
lazyNext(L, arg) ==
    [L EXCEPT !.calls = Append(@, [arg |-> arg, visited |-> L.visited,
                                   replaced |-> L.replaced])]

\* resolve = once(resolvedDef => { ...; pending--; if (pending <= 0) next() })
lazyResolve(L, k) ==
    IF k \in L.resolveCalled THEN L
    ELSE LET L1 == [L EXCEPT !.resolveCalled = @ \cup {k},
                             !.replaced = @ \cup {k},
                             !.pending = @ - 1]
         IN  IF L1.pending <= 0 THEN lazyNext(L1, "undefined") ELSE L1

\* reject = once(reason => { if (!error) { error = ...; next(error) } })
lazyReject(L, k) ==
    IF k \in L.rejectCalled THEN L
    ELSE LET L1 == [L EXCEPT !.rejectCalled = @ \cup {k}]
         IN  IF ~L1.error THEN lazyNext([L1 EXCEPT !.error = TRUE], "error") ELSE L1

\* the function given to flatMapComponents, applied to view k
VisitView(L, views, k) ==
    IF views[k] = "component" THEN L
    ELSE LET L1 == [L EXCEPT !.hasAsync = TRUE, !.pending = @ + 1,
                             !.visited = @ \cup {k}]
         IN  IF views[k] = "resolves" THEN lazyResolve(L1, k)
             ELSE IF views[k] = "throws" THEN lazyReject(L1, k)
             ELSE L1

RECURSIVE VisitViews(_, _, _)
\* flatMapComponents(matched, fn) from view k on
VisitViews(L, views, k) ==
    IF k > Len(views) THEN L
    ELSE VisitViews(VisitView(L, views, k), views, k + 1)

\* the function resolveAsyncComponents(matched) returns
lazyGuard(views) ==
    LET L == VisitViews(NewClosure, views, 1)
    IN  IF ~L.hasAsync THEN lazyNext(L, "undefined") ELSE L

IdleLazy ==
    /\ lzViews = << >>
    /\ lzInvoked = FALSE
    /\ lz = NewClosure


InitLazy ==
    /\ lzViews \in SeqsUpTo(ViewKinds, MaxViews)
    /\ lzInvoked = FALSE
    /\ lz = NewClosure

\* the queue runner invokes the lazy-view step
LazyInvoke ==
    /\ ~lzInvoked
    /\ lzInvoked' = TRUE
    /\ lz' = lazyGuard(lzViews)
    /\ UNCHANGED <<lzViews, tableVars, diffVars, matchVars, unregVars, readyLog,
                   engineVars, queueVars, throwers,
                   redirVars>>

\* a factory that was invoked calls resolve, or the promise it returned is
\* fulfilled
LazyResolve(k) ==
    /\ lzInvoked
    /\ k \in lz.visited
    /\ lz' = lazyResolve(lz, k)
    /\ UNCHANGED <<lzViews, lzInvoked, tableVars, diffVars, matchVars, unregVars,
                   readyLog, engineVars, queueVars, throwers,
                   redirVars>>

\* a factory that was invoked calls reject, or the promise it returned is
\* rejected
LazyReject(k) ==
    /\ lzInvoked
    /\ k \in lz.visited
    /\ lz' = lazyReject(lz, k)
    /\ UNCHANGED <<lzViews, lzInvoked, tableVars, diffVars, matchVars, unregVars,
                   readyLog, engineVars, queueVars, throwers,
                   redirVars>>

\* ----------------------------------------------------------------- runQueue

\* the longest queue, and how often the continuations of one entry are called
MaxQueue == 4
MaxAdvance == 2

QueueEvent(what, index) == [what |-> what, index |-> index]

RECURSIVE runQueueStepEager(_, _, _)
\* mutation: step goes on to the next entry without waiting for the
\* continuation
runQueueStepEager(queue, log, index) ==
    IF index > Len(queue) THEN Append(log, QueueEvent("cb", 0))
    ELSE IF queue[index]
    THEN runQueueStepEager(queue, Append(log, QueueEvent("fn", index)), index + 1)
    ELSE runQueueStepEager(queue, log, index + 1)

RECURSIVE runQueueStep(_, _, _)
\* runQueue's step(index), index counted from 1: the history after it
runQueueStep(queue, log, index) ==
    IF index > Len(queue) THEN Append(log, QueueEvent("cb", 0))
    ELSE IF queue[index] THEN Append(log, QueueEvent("fn", index))
    ELSE runQueueStep(queue, log, index + 1)

IdleQueue ==
    /\ qQueue = << >>
    /\ qStarted = FALSE
    /\ qAdvanced = << >>
    /\ qLog = << >>

\* no guard throws
NoThrowers == throwers = [g \in {} |-> "returns"]

IdleUnits == IdleLazy /\ IdleQueue /\ NoThrowers /\ IdleRedirect

InitQueue ==
    /\ qQueue \in SeqsUpTo(BOOLEAN, MaxQueue)
    /\ qStarted = FALSE
    /\ qAdvanced = [k \in 1..Len(qQueue) |-> 0]
    /\ qLog = << >>

\* runQueue(queue, fn, cb): step(0)
runQueue ==
    /\ ~qStarted
    /\ qStarted' = TRUE
    /\ qLog' = runQueueStep(qQueue, << >>, 1)
    /\ UNCHANGED <<qQueue, qAdvanced, tableVars, diffVars, matchVars, unregVars,
                   readyLog, engineVars, lazyVars, throwers,
                   redirVars>>

\* fn, or whoever fn handed it to, calls the continuation it was given for
\* entry k: () => { step(index + 1) }
QueueAdvance(k) ==
    /\ k \in 1..Len(qQueue)
    /\ \E i \in 1..Len(qLog) : qLog[i] = QueueEvent("fn", k)
    /\ qAdvanced[k] < MaxAdvance
    /\ qAdvanced' = [qAdvanced EXCEPT ![k] = @ + 1]
    /\ qLog' = runQueueStep(qQueue, Append(qLog, QueueEvent("advance", k)), k + 1)
    /\ UNCHANGED <<qQueue, qStarted, tableVars, diffVars, matchVars, unregVars,
                   readyLog, engineVars, lazyVars, throwers,
                   redirVars>>

\* ---------------------------------------------------------- specifications

IdleTable ==
    /\ pathList = << >>
    /\ pathMap = EmptyMap
    /\ nameMap = EmptyMap
    /\ records = << >>
    /\ regLog = << >>
    /\ prePin = << >>
    /\ addCalls = 0

IdleDiff ==
    /\ rqCurrent = << >>
    /\ rqNext = << >>
    /\ rqResult = Undefined
    /\ rqDone = TRUE

\* History's constructor, for a router with no hook and no listener
InitHistory ==
    /\ current = START
    /\ pending = NullRoute
    /\ ready = FALSE
    /\ readyCbs = << >>
    /\ readyErrorCbs = << >>
    /\ errorCbs = << >>
    /\ listener = FALSE
    /\ beforeHooks = << >>
    /\ resolveHooks = << >>
    /\ afterHooks = << >>
    /\ routeHeap = << >>
    /\ trans = << >>
    /\ conts = {}
    /\ factories = {}
    /\ resolved = {}
    /\ instances = {}
    /\ readyLog = << >>

IdleEngine == InitHistory

\* the route table: the initial build, then addRoutes calls
InitSpecTable == InitTable /\ IdleDiff /\ IdleMatch /\ IdleUnreg /\ IdleUnits /\ IdleEngine
NextTable == addRoutes
SpecTable == InitSpecTable /\ [][NextTable]_vars

\* resolveQueue on every pair of chains
InitSpecDiff == IdleTable /\ InitDiff /\ IdleMatch /\ IdleUnreg /\ IdleUnits /\ IdleEngine
NextDiff == ApplyResolveQueue
SpecDiff == InitSpecDiff /\ [][NextDiff]_vars

\* match on every table, location and current params, then on the path of
\* the Route it returned
InitSpecMatch == InitMatchTable /\ IdleDiff /\ InitMatch /\ IdleUnreg /\ IdleUnits /\ IdleEngine
NextMatch == MatchCall \/ MatchAgain
SpecMatch == InitSpecMatch /\ [][NextMatch]_vars

\* hooks registered on one router, and the functions returned called
InitSpecHooks == IdleTable /\ IdleDiff /\ IdleMatch /\ IdleUnreg /\ IdleUnits /\ IdleEngine
NextHooks ==
    \/ \E which \in HookLists, fn \in HookFunctions : register(which, fn)
    \/ \E r \in 1..MaxRegistrations : unregister(r)
SpecHooks == InitSpecHooks /\ [][NextHooks]_vars

\* the transitions of one router: navigation requests, guards calling next,
\* lazy views resolving, and the registrations made on the router meanwhile
InitSpec == InitEngineTable /\ IdleDiff /\ IdleMatch /\ IdleUnreg /\ IdleUnits /\ InitHistory
Next ==
    \/ \E loc \in Locations : init(loc)
    \/ \E loc \in Locations, via \in {"push", "replace"} : Navigate(loc, via)
    \/ \E c \in conts, arg \in NextArgs : GuardNext(c, arg)
    \/ \E f \in factories : FactoryResolve(f)
    \/ \E f \in factories : FactoryReject(f)
    \/ \E fn \in Functions : beforeEach(fn)
    \/ \E fn \in Functions : beforeResolve(fn)
    \/ \E fn \in Functions : afterEach(fn)
    \/ \E fn \in Functions : onReady(fn, fn)
    \/ \E fn \in Functions : onError(fn)
    \/ render
Spec == InitSpec /\ [][Next]_vars

\* a router with a wildcard route: navigation requests, guards calling next,
\* and addRoutes calls
InitSpecRouter == InitRouterTable /\ IdleDiff /\ IdleMatch /\ IdleUnreg /\ IdleUnits /\ InitHistory
NextRouter ==
    \/ \E loc \in RouterLocations : init(loc)
    \/ \E loc \in RouterLocations, via \in {"push", "replace"} : Navigate(loc, via)
    \/ \E c \in conts, arg \in NextArgs : GuardNext(c, arg)
    \/ \E routes \in RouterAdditions : routerAddRoutes(routes)
SpecRouter == InitSpecRouter /\ [][NextRouter]_vars

\* the transitions of a router some of whose guards throw when invoked
InitSpecThrow ==
    InitEngineTable /\ IdleDiff /\ IdleMatch /\ IdleUnreg /\ IdleLazy /\ IdleQueue
    /\ IdleRedirect
    /\ InitThrowers /\ InitHistory
NextThrow ==
    \/ \E loc \in Locations : init(loc)
    \/ \E loc \in Locations, via \in {"push", "replace"} : Navigate(loc, via)
    \/ \E c \in conts, arg \in NextArgs : GuardNext(c, arg)
    \/ \E fn \in Functions : onError(fn)
SpecThrow == InitSpecThrow /\ [][NextThrow]_vars

\* the transitions of a router whose enter guards pass callbacks to next: the
\* $nextTick jobs and the poll timers run at any time, and so do the views
EnterArgs == {Proceed, NextFalse, Callback}
EnterCallbacks ==
    {[rec |-> pairs.rec, slot |-> pairs.slot] :
        pairs \in {[rec |-> r, slot |-> "default"] : r \in 1..3}}
NextEnter ==
    \/ \E loc \in Locations : init(loc)
    \/ \E loc \in Locations : Navigate(loc, "push")
    \/ \E c \in conts, arg \in EnterArgs : GuardNext(c, arg)
    \/ \E f \in factories : FactoryResolve(f)
    \/ \E t \in 1..MaxTransitions : nextTick(t)
    \/ \E t \in 1..MaxTransitions, cb \in EnterCallbacks : pollTimer(t, cb)
    \/ render
SpecEnter == InitSpec /\ [][NextEnter]_vars

\* the transitions of a router whose guards all call next() and whose
\* factories all resolve; with weak fairness, every guard that was invoked
\* does call next() and every promise is fulfilled. The fairness conditions
\* are WF_vars(GuardProceeds) and WF_vars(FactoryResolves) with ENABLED
\* written out: a guard can call next() exactly when a continuation is
\* held, a promise can be fulfilled exactly when a factory is pending
GuardProceeds == \E c \in conts : GuardNext(c, Proceed)
FactoryResolves == \E f \in factories : FactoryResolve(f)
NextProceeding ==
    \/ \E loc \in Locations : init(loc)
    \/ \E loc \in Locations : NavigateUpTo(loc, "push", MaxProceeding)
    \/ GuardProceeds
    \/ FactoryResolves
SpecProceeding == InitSpec /\ [][NextProceeding]_vars
GuardsFair == []<>(conts = {}) \/ []<><<GuardProceeds>>_vars
FactoriesFair == []<>(factories = {}) \/ []<><<FactoryResolves>>_vars
SpecProceedingFair == SpecProceeding /\ GuardsFair /\ FactoriesFair

\* what ENABLED is in the two fairness conditions
EnabledWrittenOut ==
    /\ (conts # {}) <=> ENABLED <<GuardProceeds>>_vars
    /\ (factories # {}) <=> ENABLED <<FactoryResolves>>_vars

\* the lazy-view step alone: over every chain of at most MaxViews views, the
\* step is invoked and its factories settle in any order
InitSpecLazy ==
    IdleTable /\ IdleDiff /\ IdleMatch /\ IdleUnreg /\ InitLazy /\ IdleQueue
    /\ NoThrowers /\ IdleRedirect /\ IdleEngine
NextLazy ==
    \/ LazyInvoke
    \/ \E k \in 1..MaxViews : LazyResolve(k)
    \/ \E k \in 1..MaxViews : LazyReject(k)
SpecLazy == InitSpecLazy /\ [][NextLazy]_vars

\* runQueue alone: over every queue of at most MaxQueue entries, with the
\* continuations called in any order
InitSpecQueue ==
    IdleTable /\ IdleDiff /\ IdleMatch /\ IdleUnreg /\ IdleLazy /\ InitQueue
    /\ NoThrowers /\ IdleRedirect /\ IdleEngine
NextQueue ==
    \/ runQueue
    \/ \E k \in 1..MaxQueue : QueueAdvance(k)
SpecQueue == InitSpecQueue /\ [][NextQueue]_vars

\* ------------------------------------------------------------ properties

Min(a, b) == IF a <= b THEN a ELSE b

\* the elements of a sequence
Range(seq) == {seq[k] : k \in DOMAIN seq}

\* the length of the longest common prefix of two chains, under identity
CommonPrefix(a, b) ==
    CHOOSE i \in 0..Min(Len(a), Len(b)) :
        /\ \A k \in 1..i : a[k] = b[k]
        /\ i < Min(Len(a), Len(b)) => a[i + 1] # b[i + 1]

\* C7: for every pair of chains, resolveQueue returns updated = target[0..i),
\* activated = target[i..), deactivated = current[i..) with i the length of
\* the longest common prefix; so updated followed by activated is the target
\* chain and the first i records of current followed by deactivated is the
\* current chain.
ResolveQueueSplitsAtCommonPrefix ==
    rqDone =>
        LET i == CommonPrefix(rqCurrent, rqNext)
        IN  /\ rqResult.updated = SubSeq(rqNext, 1, i)
            /\ rqResult.activated = SubSeq(rqNext, i + 1, Len(rqNext))
            /\ rqResult.deactivated = SubSeq(rqCurrent, i + 1, Len(rqCurrent))
            /\ rqResult.updated \o rqResult.activated = rqNext
            /\ SubSeq(rqCurrent, 1, i) \o rqResult.deactivated = rqCurrent

\* resolveQueue was applied to chains of different length that share a
\* proper, non-empty prefix and then diverge
ResolveQueueWitness ==
    /\ rqDone
    /\ Len(rqCurrent) # Len(rqNext)
    /\ Len(rqResult.updated) > 0
    /\ Len(rqResult.activated) > 0
    /\ Len(rqResult.deactivated) > 0

\* C8: after the initial build and after any sequence of addRoutes calls, the
\* set of strings in pathList equals the set of keys of pathMap, and pathList
\* contains no string twice.
PathListMatchesPathMap ==
    /\ Range(pathList) = DOMAIN pathMap
    /\ \A i, j \in DOMAIN pathList : pathList[i] = pathList[j] => i = j

\* an addRoutes call declared a path that was already registered, and
\* registered new ones
PathListWitness ==
    /\ addCalls > 0
    /\ \E id \in DOMAIN records :
        /\ records[id].path \in DOMAIN pathMap
        /\ pathMap[records[id].path] < id
    /\ \E p \in DOMAIN pathMap : pathMap[p] = Len(records)

IsWildcard(path) == path = Star
NotWildcard(path) == path # Star

\* the paths of the pathMap writes, in the order they were made
RECURSIVE RegisteredPaths(_)
RegisteredPaths(log) ==
    IF Len(log) = 0 THEN << >>
    ELSE IF log[1][1] = "path"
         THEN <<log[1][2]>> \o RegisteredPaths(Tail(log))
         ELSE RegisteredPaths(Tail(log))

\* C9: after the initial build and after any sequence of addRoutes calls,
\* every wildcard entry of pathList comes after every non-wildcard entry, and
\* the wildcard pass does not change the relative order of the non-wildcard
\* entries: they stay in the order they were registered in.
WildcardsPinnedLast ==
    /\ \A i, j \in DOMAIN pathList :
        IsWildcard(pathList[i]) /\ NotWildcard(pathList[j]) => j < i
    /\ SelectSeq(pathList, NotWildcard) = SelectSeq(prePin, NotWildcard)
    /\ SelectSeq(pathList, NotWildcard) = SelectSeq(RegisteredPaths(regLog), NotWildcard)

\* an addRoutes call pushed non-wildcard paths behind a wildcard, and the
\* pass moved the wildcard
WildcardsWitness ==
    /\ addCalls > 0
    /\ \E i, j \in DOMAIN prePin :
        i < j /\ IsWildcard(prePin[i]) /\ NotWildcard(prePin[j])
    /\ Len(SelectSeq(pathList, NotWildcard)) >= 2

\* no key of pathMap or nameMap is written twice
FirstRegistrationWins ==
    /\ \A i, j \in DOMAIN regLog :
        regLog[i][1] = regLog[j][1] /\ regLog[i][2] = regLog[j][2] => i = j
    /\ \A i \in DOMAIN regLog :
        IF regLog[i][1] = "path"
        THEN regLog[i][2] \in DOMAIN pathMap /\ pathMap[regLog[i][2]] = regLog[i][3]
        ELSE regLog[i][2] \in DOMAIN nameMap /\ nameMap[regLog[i][2]] = regLog[i][3]

\* an entry of pathMap or nameMap stays, with the same record
TableStepKeepsEntries ==
    /\ \A p \in DOMAIN pathMap : p \in DOMAIN pathMap' /\ pathMap'[p] = pathMap[p]
    /\ \A n \in DOMAIN nameMap : n \in DOMAIN nameMap' /\ nameMap'[n] = nameMap[n]

\* C10: the route table is append-only with first registration winning: once
\* pathMap[p] or nameMap[n] holds a record, no later declaration in the same
\* build and no later addRoutes call removes it or replaces it.
TableAppendOnly == [][TableStepKeepsEntries]_vars /\ []FirstRegistrationWins

\* an addRoutes call declared again a name and a path that were registered,
\* with records that were not registered
AppendOnlyWitness ==
    /\ addCalls > 0
    /\ \E id \in DOMAIN records :
        /\ records[id].name \in DOMAIN nameMap
        /\ nameMap[records[id].name] < id
        /\ records[id].path \in DOMAIN pathMap
        /\ pathMap[records[id].path] < id

\* ---------------------------------------------------- transition histories

Transitions == 1..Len(trans)
Events(t) == trans[t].events
Has(t, what) == \E i \in 1..Len(Events(t)) : Events(t)[i].what = what
HasAbort(t, err) ==
    \E i \in 1..Len(Events(t)) :
        Events(t)[i].what = "onAbort" /\ Events(t)[i].detail = err
Committed(t) == Has(t, "onComplete")
IsGuardEvent(e) == e.what \in {"guard", "lazy"}
GuardEvents(t) == SelectSeq(Events(t), IsGuardEvent)
\* what a step added to the history of t, as <<what, detail>> pairs
NewEvents(t) ==
    [i \in 1..(Len(trans'[t].events) - Len(trans[t].events)) |->
        LET e == trans'[t].events[Len(trans[t].events) + i]
        IN  <<e.what, e.detail>>]
IsSuspended(t) == Suspended(World, t)

\* C1, in every state: a transition that was superseded while suspended is
\* not current and its success callback has not run
SupersededNotCommitted ==
    \A t \in Transitions :
        trans[t].superseded => current # t /\ ~Committed(t) /\ ~Has(t, "listener")

\* C1, in every step: a superseded transition has no guard and no lazy
\* resolution invoked, and does not become current
SupersededStepsNoGuard ==
    \A t \in Transitions :
        trans[t].superseded =>
            /\ \A i \in 1..Len(NewEvents(t)) :
                   NewEvents(t)[i][1] \notin {"guard", "lazy", "listener", "onComplete"}
            /\ current' # t

\* C1: once a non-duplicate transitionTo overwrote pending while transition A
\* was suspended inside a guard, A never commits (current is never A's route,
\* A's success callback never runs) and no further guard of A is invoked
SupersededNeverCommits ==
    []SupersededNotCommitted /\ [][SupersededStepsNoGuard]_vars

\* a superseded transition whose guard went on to call next: the iterator
\* found pending changed and aborted silently
SupersededWitness ==
    \E t \in Transitions :
        /\ trans[t].superseded
        /\ ~IsSuspended(t)
        /\ HasAbort(t, "undefined")
        /\ pending # t

\* C2, in every step: next(false) of a guard of the pending transition leaves
\* current alone, asks for the URL to be restored, calls onAbort once with
\* false, and invokes nothing else
NextFalseStep ==
    \A c \in conts :
        (pending = c.t /\ GuardNext(c, NextFalse)) =>
            /\ current' = current
            /\ NewEvents(c.t) = << <<"ensureURL", "true">>, <<"onAbort", "false">> >>
            /\ ~Suspended([conts |-> conts', factories |-> factories'], c.t)

\* C2, in every state: a transition aborted with false has onAbort as the
\* last entry of its history, once, and is not current
NextFalseFinal ==
    \A t \in Transitions :
        HasAbort(t, "false") =>
            /\ Events(t)[Len(Events(t))].what = "onAbort"
            /\ Cardinality({i \in 1..Len(Events(t)) : Events(t)[i].what = "onAbort"}) = 1
            /\ current # t
            /\ ~IsSuspended(t)

\* C2: when a guard of a transition that has not been superseded calls
\* next(false), current is unchanged, no later guard of the transition is
\* invoked, ensureURL is called and onAbort is called exactly once
NextFalseAborts == [][NextFalseStep]_vars /\ []NextFalseFinal

\* a pending transition one of whose guards called next(false), after another
\* of its guards had proceeded
NextFalseWitness ==
    \E t \in Transitions :
        /\ pending = t
        /\ HasAbort(t, "false")
        /\ Has(t, "ensureURL")
        /\ Len(GuardEvents(t)) >= 2

\* C3, in every step: a redirect starts one transition to the target, by
\* replace for an object with a truthy replace flag and by push otherwise,
\* and the redirecting transition does not become current
RedirectStep ==
    \A c \in conts : \A arg \in Redirects :
        GuardNext(c, arg) =>
            /\ Len(routeHeap') = Len(routeHeap) + 1
            /\ routeHeap'[Len(routeHeap')].path = arg.loc
            /\ trans'[Len(trans')].origin = c.t
            /\ trans'[Len(trans')].via =
                   IF arg.form = "object" /\ arg.replace THEN "replace" ELSE "push"
            /\ current' # c.t
            /\ NewEvents(c.t) = << <<"onAbort", "undefined">> >>

\* C3, in every state: a transition that redirected is not committed and has
\* started exactly one transition
RedirectFinal ==
    \A t \in Transitions :
        (\E u \in Transitions : trans[u].origin = t) =>
            /\ current # t
            /\ ~Committed(t)
            /\ ~IsSuspended(t)
            /\ Cardinality({u \in Transitions : trans[u].origin = t}) = 1

DuplicateStep ==
    Len(routeHeap') > Len(routeHeap) =>
        LET t == Len(routeHeap')
            route == routeHeap'[t]
            cur == RouteOf(World, current)
        IN  (route.path = cur.path /\ Len(route.matched) = Len(cur.matched)) =>
                /\ [i \in 1..Len(trans'[t].events) |->
                       <<trans'[t].events[i].what, trans'[t].events[i].detail>>]
                     = << <<"ensureURL", "">>, <<"onAbort", "NavigationDuplicated">> >>
                /\ current' = current
                /\ pending' = pending
                /\ \A c \in conts' : c.t # t
                /\ \A f \in factories' : f.t # t

\* C4, in every state: a transition aborted as a duplicate has invoked no
\* guard and no error listener, and never does
DuplicateFinal ==
    \A t \in Transitions :
        HasAbort(t, "NavigationDuplicated") =>
            /\ Len(Events(t)) = 2
            /\ Events(t)[1].what = "ensureURL"
            /\ current # t
            /\ pending # t
            /\ ~IsSuspended(t)

\* C4: a transitionTo to the route that is current aborts as a duplicate:
\* onAbort receives NavigationDuplicated, no guard and no error listener is
\* invoked, current and pending are unchanged
DuplicateAborts == [][DuplicateStep]_vars /\ []DuplicateFinal

\* a duplicate navigation on a router with an error listener registered
DuplicateWitness ==
    \E t \in Transitions :
        /\ HasAbort(t, "NavigationDuplicated")
        /\ Len(errorCbs) > 0
        /\ current # START
        /\ routeHeap[t].path = routeHeap[current].path

\* the place of a guard kind in the order of a transition
Rank(e) ==
    IF e.what = "lazy" THEN 5
    ELSE IF e.detail = "leave" THEN 1
    ELSE IF e.detail = "beforeEach" THEN 2
    ELSE IF e.detail = "update" THEN 3
    ELSE IF e.detail = "beforeEnter" THEN 4
    ELSE IF e.detail = "enter" THEN 6
    ELSE 7

\* the index of x in a sequence without repetitions, 0 when absent
IndexOf(seq, x) ==
    IF \E i \in 1..Len(seq) : seq[i] = x
    THEN CHOOSE i \in 1..Len(seq) : seq[i] = x
    ELSE 0

FromChain(t) == RouteOf(World, trans[t].from).matched
TargetChain(t) == routeHeap[t].matched
Shared(t) == CommonPrefix(FromChain(t), TargetChain(t))

\* the place of a guard among the guards of its kind: leave guards from the
\* leaf to the root, guards of records from the root to the leaf, hooks in
\* the order of their registration
Place(t, e) ==
    IF e.what = "lazy" THEN 0
    ELSE IF e.detail = "leave" THEN 0 - IndexOf(FromChain(t), e.id)
    ELSE IF e.detail = "beforeEach" THEN IndexOf(beforeHooks, e.id)
    ELSE IF e.detail = "beforeResolve" THEN IndexOf(resolveHooks, e.id)
    ELSE IndexOf(TargetChain(t), e.id)

\* whether the guard belongs to the records its kind is taken from
InItsChain(t, e) ==
    IF e.what = "lazy" THEN TRUE
    ELSE IF e.detail = "leave" THEN IndexOf(FromChain(t), e.id) > Shared(t)
    ELSE IF e.detail = "update"
         THEN IndexOf(TargetChain(t), e.id) \in 1..Shared(t)
    ELSE IF e.detail \in {"beforeEnter", "enter"}
         THEN IndexOf(TargetChain(t), e.id) > Shared(t)
    ELSE IF e.detail = "beforeEach" THEN IndexOf(beforeHooks, e.id) > 0
    ELSE IndexOf(resolveHooks, e.id) > 0

IsCommitEvent(e) == e.what \in {"listener", "afterEach", "onComplete"}

\* C5: in every transition that commits, the guards were invoked in the order
\* leave guards (leaf to root), beforeEach hooks (registration order), update
\* guards (root to leaf), beforeEnter (root to leaf), lazy views, enter guards
\* (root to leaf), beforeResolve hooks; and current was set only after the
\* last of them had proceeded
GuardsInOrder ==
    \A t \in Transitions :
        Committed(t) =>
            LET g == GuardEvents(t)
            IN  /\ \A i \in 1..Len(g) : InItsChain(t, g[i]) /\ g[i].cur # t
                /\ \A i \in 1..(Len(g) - 1) :
                       \/ Rank(g[i]) < Rank(g[i + 1])
                       \/ /\ Rank(g[i]) = Rank(g[i + 1])
                          /\ Place(t, g[i]) < Place(t, g[i + 1])
                /\ \A i \in 1..Len(Events(t)) : \A j \in 1..Len(Events(t)) :
                       (IsCommitEvent(Events(t)[i]) /\ IsGuardEvent(Events(t)[j])) => j < i
                /\ ~IsSuspended(t)

\* a committed transition that went through a guard of each of the seven kinds
GuardsInOrderWitness ==
    \E t \in Transitions :
        /\ Committed(t)
        /\ current = t
        /\ {Rank(GuardEvents(t)[i]) : i \in 1..Len(GuardEvents(t))} = 1..7

\* C6, in every state: the listener, the afterEach hooks and onComplete ran
\* with current already the target and pending cleared, the listener ahead of
\* onComplete
CommitSnapshots ==
    \A t \in Transitions :
        \A i \in 1..Len(Events(t)) :
            IsCommitEvent(Events(t)[i]) =>
                /\ Events(t)[i].cur = t
                /\ Events(t)[i].pend = NullRoute
                /\ \A j \in 1..Len(Events(t)) :
                       (Events(t)[i].what = "onComplete" /\ Events(t)[j].what = "listener")
                           => j < i

\* what the commit of t invokes, in order, as <<what, function>> pairs
CommitCalls(t) ==
    (IF listener THEN << <<"listener", t>> >> ELSE << >>)
    \o [k \in 1..Len(afterHooks) |-> <<"afterEach", afterHooks[k]>>]
    \o << <<"onComplete", 0>>, <<"ensureURL", 0>> >>
    \o (IF ready THEN << >> ELSE [k \in 1..Len(readyCbs) |-> <<"readyCb", readyCbs[k]>>])

\* C6, in every step: when the last guard of the second queue of the pending
\* transition proceeds, pending is cleared, current is the target, and the
\* listener, afterEach hooks, onComplete and, iff the controller was not yet
\* ready, the ready callbacks are invoked in this order
CommitStep ==
    \A c \in conts :
        (/\ pending = c.t
         /\ c.phase = 2
         /\ \A k \in (c.index + 1)..Len(trans[c.t].queue2) :
                trans[c.t].queue2[k].kind = "null"
         /\ GuardNext(c, Proceed)) =>
            /\ current' = c.t
            /\ pending' = NullRoute
            /\ ready'
            /\ [i \in 1..(Len(trans'[c.t].events) - Len(trans[c.t].events)) |->
                   LET e == trans'[c.t].events[Len(trans[c.t].events) + i]
                   IN  <<e.what, e.id>>] = CommitCalls(c.t)

\* C6: when the second queue of a transition that was not superseded
\* completes, pending is cleared and current set to the target before the
\* listener, the afterEach hooks and onComplete run (the listener first), and
\* the ready callbacks are flushed then iff the controller was not yet ready
CommitOrder == [][CommitStep]_vars /\ []CommitSnapshots

\* a commit that followed a guard of the second queue and invoked the
\* listener, an afterEach hook and a ready callback, and after it a commit on
\* the controller then ready, which left the ready callbacks alone
CommitWitness ==
    \E t \in Transitions : \E u \in Transitions :
        /\ Committed(t)
        /\ Has(t, "listener") /\ Has(t, "afterEach") /\ Has(t, "readyCb")
        /\ \E i \in 1..Len(Events(t)) :
               Events(t)[i].what = "guard" /\ Events(t)[i].arg = 2
        /\ current = u
        /\ u # t
        /\ Has(u, "listener") /\ ~Has(u, "readyCb")

\* ------------------------------------------------------- addRoutes, match

\* locations the tables are asked to match
TableLocations ==
    {pA, pA \o Slash, pA \o Slash \o pB, pCslash, StripTrailingSlash(pCslash),
     pCslash \o pB, <<"/", "x">>}

\* the records an addRoutes step created
CreatedRecords == (Len(records) + 1)..Len(records')

\* the paths the declarations can give a record, '*' and the aliases apart
DeclarablePaths ==
    {pA, pA \o Slash, pA \o Slash \o pB, pA \o Slash \o Star, pCslash,
     pCslash \o pB}

\* whether an addRoutes step created a record, not an alias, and registered
\* it under the path
Declared(path) ==
    /\ path \in DOMAIN pathMap'
    /\ pathMap'[path] \in CreatedRecords
    /\ records'[pathMap'[path]].matchAs = NoPath

\* whether an entry of the table before the step, other than '*', matches
MatchedBefore(path) ==
    \E i \in 1..Len(pathList) :
        /\ pathList[i] # Star
        /\ matchRoute(records[pathMap[pathList[i]]].regex, path)

\* whether an entry the step registered ahead of the path's own matches
MatchedAhead(path) ==
    \E i \in 1..Len(pathList') :
        /\ pathList'[i] \notin DOMAIN pathMap
        /\ pathList'[i] # Star
        /\ pathList'[i] # path
        /\ \A j \in 1..Len(pathList') : pathList'[j] = path => i < j
        /\ matchRoute(records'[pathMap'[pathList'[i]]].regex, path)

\* a location that matched an entry other than '*' keeps its chain
ChainsKept ==
    \A loc \in TableLocations :
        LET found == ScanPathList(CurrentTable, loc, 1)
        IN  (found # NoRecord /\ records[found].path # Star) =>
                \A after \in {CurrentTable'} :
                    match(after, loc).matched = match(CurrentTable, loc).matched

\* every record a step creates under a path of its own has a declarable path
AllDeclarable ==
    \A id \in CreatedRecords :
        (records'[id].matchAs = NoPath /\ records'[id].path # Star) =>
            records'[id].path \in DeclarablePaths

\* the statement of C11 as it stands: every path the call declared, unless an
\* entry that was there (other than '*') matches it, resolves to its own
\* record; and the chains of the locations matched before are kept
AddRoutesOwnRecordStep ==
    addCalls' = addCalls + 1 =>
        /\ \A path \in DeclarablePaths :
               (Declared(path) /\ ~MatchedBefore(path)) =>
                   \A after \in {CurrentTable'} :
                       LastOf(match(after, path).matched) = after.pathMap[path]
        /\ ChainsKept
AddRoutesOwnRecord == [][AddRoutesOwnRecordStep]_vars

\* C11 amended, in every step: a path the call declared that matches no entry
\* that was there (other than '*') and no entry the call registered ahead of
\* it resolves to its own record, also past a '*' registered before; and the
\* chains of the locations matched before are kept
AddRoutesMatchStep ==
    addCalls' = addCalls + 1 =>
        /\ AllDeclarable
        /\ \A path \in DeclarablePaths :
               (Declared(path) /\ ~MatchedBefore(path) /\ ~MatchedAhead(path)) =>
                   \A after \in {CurrentTable'} :
                       LastOf(match(after, path).matched) = after.pathMap[path]
        /\ ChainsKept

\* C11 (amended): after addRoutes(D), a path declared in D that no entry
\* registered ahead of it matches, the former '*' apart, is matched to its new
\* record; every location that matched a non-wildcard record before still
\* yields the identical chain
AddRoutesMatch == [][AddRoutesMatchStep]_vars

\* an addRoutes call on a table holding '*' registered a path that resolves
\* to its new record, and a location matched before resolves as before
AddRoutesMatchWitness ==
    /\ addCalls > 0
    /\ Len(pathList) > 1
    /\ pathList[Len(pathList)] = Star
    /\ \E i \in 1..Len(regLog) : \E j \in 1..Len(regLog) :
          /\ i < j
          /\ regLog[i][1] = "path" /\ regLog[i][2] = Star
          /\ regLog[j][1] = "path" /\ regLog[j][2] # Star
          /\ LastOf(match(CurrentTable, regLog[j][2]).matched) = regLog[j][3]

\* -------------------------------------------------------- router.addRoutes

\* the statement of C12 as it stands: no addRoutes call starts a transition
\* or changes current or pending
AddRoutesOnlyTableStep ==
    addCalls' = addCalls + 1 =>
        /\ Len(trans') = Len(trans)
        /\ current' = current
        /\ pending' = pending
AddRoutesOnlyTable == [][AddRoutesOnlyTableStep]_vars

AddRoutesFromStartStep ==
    addCalls' = addCalls + 1 =>
        IF current = START
        THEN /\ trans' = trans
             /\ routeHeap' = routeHeap
             /\ current' = current
             /\ pending' = pending
        ELSE /\ Len(trans') = Len(trans) + 1
             /\ trans'[Len(trans')].via = "addRoutes"
             /\ routeHeap'[Len(routeHeap')].path = getCurrentLocation

\* C12 (amended): router.addRoutes called while current is START, whatever
\* is pending, changes the table only: it starts no transition and leaves
\* current and pending as they are; called once a route is current, it also
\* starts one transition to the current location
AddRoutesFromStart == [][AddRoutesFromStartStep]_vars

\* addRoutes was called while a transition was pending and current was START,
\* or it was called on a current route and the transition it started committed
AddRoutesFromStartWitness ==
    /\ addCalls > 0
    /\ \/ current = START /\ pending # NullRoute
       \/ \E t \in Transitions : trans[t].via = "addRoutes" /\ Committed(t)

\* ------------------------------------------------------------------- match

\* match has run on a location naming a record of the table
MatchedByName ==
    /\ mPhase >= 1
    /\ mLocation.name # Undefined
    /\ mLocation.name \in DOMAIN nameMap

NamedRecord == records[nameMap[mLocation.name]]

\* the names of the record's keys that are not optional, read off the keys
RequiredNames ==
    {name \in ParamNames :
        \E k \in DOMAIN NamedRecord.regex.keys :
            /\ NamedRecord.regex.keys[k].name = name
            /\ NamedRecord.regex.keys[k].optional = FALSE}

\* C13: after a match by name with a current route, every required parameter
\* of the named record that location.params lacks and currentRoute.params
\* holds has the current route's value; every parameter given in
\* location.params keeps its value; nothing else is added, so no optional
\* parameter and no parameter that is not a key of the record is inherited.
RequiredParamsInherited ==
    MatchedByName =>
        /\ \A name \in RequiredNames :
               (name \notin DOMAIN mLocation.params /\ name \in DOMAIN mCurrentParams) =>
                   (name \in DOMAIN mParams /\ mParams[name] = mCurrentParams[name])
        /\ \A name \in DOMAIN mLocation.params :
               name \in DOMAIN mParams /\ mParams[name] = mLocation.params[name]
        /\ \A name \in DOMAIN mParams :
               name \in DOMAIN mLocation.params \/ name \in RequiredNames

\* /u/:i/:t? was matched by name with params {z: '1'} on a current route with
\* params {i: '2', t: '2', z: '2'}: i was inherited, t was not, z was kept
RequiredParamsWitness ==
    /\ MatchedByName
    /\ mLocation.name = "U"
    /\ DOMAIN mLocation.params = {"z"}
    /\ mLocation.params["z"] = <<"1">>
    /\ DOMAIN mCurrentParams = {"i", "t", "z"}
    /\ \A name \in ParamNames : mCurrentParams[name] = <<"2">>
    /\ DOMAIN mParams = {"i", "z"}
    /\ mParams["i"] = <<"2">>
    /\ mParams["z"] = <<"1">>
    /\ mRoute.path = <<"/", "u", "/", "2">>

\* match has run on a location given by its path
MatchedByPath == mPhase >= 1 /\ mLocation.name = Undefined

\* the positions in pathList of the entries whose pattern matches the path
MatchingEntries ==
    {i \in 1..Len(pathList) :
        matchRoute(records[pathMap[pathList[i]]].regex, mLocation.path)}

\* C14: a match by path resolves to pathMap[p] for the first p of pathList
\* whose pattern matches the path, whatever later entries match as well; when
\* no entry matches, and when the name given is not in nameMap, the Route has
\* an empty matched chain.
FirstMatchWins ==
    /\ MatchedByPath =>
           IF MatchingEntries = {} THEN mRoute.matched = << >>
           ELSE \E i \in MatchingEntries :
                    /\ \A j \in MatchingEntries : i <= j
                    /\ LastOf(mRoute.matched) = pathMap[pathList[i]]
    /\ (mPhase >= 1 /\ mLocation.name # Undefined
            /\ mLocation.name \notin DOMAIN nameMap) =>
           mRoute.matched = << >>

\* a path that two entries match resolved to the record of the first, which
\* is not the record of the second
FirstMatchWitness ==
    /\ MatchedByPath
    /\ \E i \in MatchingEntries : \E j \in MatchingEntries :
          /\ i < j
          /\ \A k \in MatchingEntries : i <= k
          /\ pathMap[pathList[i]] # pathMap[pathList[j]]
          /\ LastOf(mRoute.matched) = pathMap[pathList[i]]

\* the statement of C15 as it stands: the Route of a match, by name or by
\* path, and the Route of a match of its path have the same chain
MatchIdempotent ==
    (mPhase = 2 /\ (MatchedByPath \/ MatchedByName)) =>
        mAgain.matched = mRoute.matched

\* whether the named record is the record of the first entry of pathList
\* whose pattern matches the path
FirstEntryIsNamed(path) ==
    /\ Len(path) > 0
    /\ \E i \in 1..Len(pathList) :
          /\ matchRoute(records[pathMap[pathList[i]]].regex, path)
          /\ \A j \in 1..(i - 1) :
                 ~matchRoute(records[pathMap[pathList[j]]].regex, path)
          /\ pathMap[pathList[i]] = nameMap[mLocation.name]

\* C15 (amended): the Route of a match by path and the Route of a match of its
\* path have the same chain; after a match by name they have the same chain
\* exactly when the named record is the record of the first entry of
\* pathList whose pattern matches the filled path
MatchIdempotentByPath ==
    mPhase = 2 =>
        /\ MatchedByPath => mAgain.matched = mRoute.matched
        /\ MatchedByName =>
               (mAgain.matched = mRoute.matched <=> FirstEntryIsNamed(mRoute.path))

\* the named child of /a was matched by name and then by its path /a/b, with
\* the same chain of two records
MatchIdempotentWitness ==
    /\ mPhase = 2
    /\ mLocation.name = "B"
    /\ MatchedByName
    /\ mRoute.path = pA \o Slash \o pB
    /\ Len(mRoute.matched) = 2
    /\ mAgain.matched = mRoute.matched

\* ------------------------------------------------------ unregister functions

\* what C16 states of a step in which the function returned by registration
\* r is called: the first call removes from its list the entry registration
\* r appended, and only that one; a later call leaves the list as it is
UnregisterOwnStep ==
    \A r \in 1..Len(unregs) : \A which \in HookLists :
        (unregs'[r].calls = unregs[r].calls + 1 /\ unregs[r].list = which) =>
            IF unregs[r].calls = 0
            THEN LET Others(e) == e # r
                 IN  entries'[which] = SelectSeq(entries[which], Others)
            ELSE /\ (HookList(which))' = HookList(which)
                 /\ entries'[which] = entries[which]

\* C16: for any sequence of beforeEach, beforeResolve and afterEach
\* registrations, the same function more than once included, and of calls of
\* the functions they returned, each function returned removes exactly the
\* entry its registration appended, and its second call changes nothing.
UnregisterRemovesOwnEntry == [][UnregisterOwnStep]_vars

\* ----------------------------------------------------------------- onReady

\* a transition was aborted with a truthy reason
SomeErrorAbort ==
    \E t \in Transitions : \E i \in 1..Len(Events(t)) :
        Events(t)[i].what = "onAbort" /\ Truthy(Events(t)[i].detail)

\* what C17 states of an onReady(fn, fn) call: before any transition
\* concluded, both callbacks are queued and none is called; once ready, with
\* no transition ever committed (the conclusion was an error) the error
\* callback is called, and with a commit and no error ever the callback is
OnReadyStep ==
    \A fn \in Functions :
        onReady(fn, fn) =>
            IF ~ready
            THEN /\ readyLog' = readyLog
                 /\ readyCbs' = Append(readyCbs, fn)
                 /\ readyErrorCbs' = Append(readyErrorCbs, fn)
            ELSE IF \A t \in Transitions : ~Committed(t)
            THEN readyLog' = Append(readyLog, [fn |-> fn, as |-> "errorCb"])
            ELSE ~SomeErrorAbort =>
                     readyLog' = Append(readyLog, [fn |-> fn, as |-> "cb"])

\* C17: onReady(cb, errorCb) called after the first transition concluded
\* calls cb when it concluded successfully and errorCb, not cb, when it
\* concluded with an error; called before any conclusion it calls neither
\* and queues both.
OnReadyCallsByOutcome == [][OnReadyStep]_vars

\* the calls of a callback queued by onReady, as (transition, position) pairs
ReadyCalls(what, fn) ==
    UNION {{<<t, i>> : i \in {j \in 1..Len(Events(t)) :
                                  /\ Events(t)[j].what = what
                                  /\ Events(t)[j].id = fn}} :
           t \in Transitions}

ReadyFlushedOnce ==
    /\ \A fn \in Functions :
           /\ Cardinality(ReadyCalls("readyCb", fn)) <= 1
           /\ Cardinality(ReadyCalls("readyErrorCb", fn)) <= 1
    /\ ~ /\ \E t \in Transitions : Has(t, "readyCb")
         /\ \E t \in Transitions : Has(t, "readyErrorCb")
    /\ (\E t \in Transitions : Has(t, "readyCb") \/ Has(t, "readyErrorCb")) => ready

\* C18: across succeeding, aborted, redirected and superseded transitions the
\* ready fan-out happens at most once: ready never goes back to false, each
\* queued onReady callback and each queued ready-error callback is called at
\* most once, and the two lists are never both flushed.
ReadyFanOutOnce == [][ready => ready']_vars /\ []ReadyFlushedOnce

\* the queued ready-error callback was called for the error of one
\* transition, and another transition committed afterwards without the
\* queued onReady callback being called
ReadyFanOutWitness ==
    /\ ready
    /\ \E fn \in Functions :
          /\ Cardinality(ReadyCalls("readyErrorCb", fn)) = 1
          /\ fn \in Range(readyCbs)
    /\ \E t \in Transitions : \E u \in Transitions :
          /\ t < u
          /\ Has(t, "readyErrorCb")
          /\ Committed(u)

\* ----------------------------------------------------------------- onError

\* the entries a step added to the history of t
NewEntries(t) ==
    IF t \in Transitions
    THEN SubSeq(trans'[t].events, Len(trans[t].events) + 1, Len(trans'[t].events))
    ELSE trans'[t].events

\* a guard calling next(false) or next(error) has the abort reported to
\* onAbort
GuardAbortReported ==
    \A c \in conts : \A arg \in {NextFalse, NextError} :
        GuardNext(c, arg) =>
            \E i \in 1..Len(NewEntries(c.t)) :
                /\ NewEntries(c.t)[i].what = "onAbort"
                /\ NewEntries(c.t)[i].detail = arg.kind

\* the statement of C19 as it stands: a guard calling next(false) or
\* next(error) has the abort reported to onAbort and to every registered
\* error listener
GuardAbortToListenersStep ==
    /\ GuardAbortReported
    /\ \A c \in conts : \A arg \in {NextFalse, NextError} :
           GuardNext(c, arg) =>
               \A fn \in Range(errorCbs) :
                   \E i \in 1..Len(NewEntries(c.t)) :
                       /\ NewEntries(c.t)[i].what = "errorCb"
                       /\ NewEntries(c.t)[i].id = fn
GuardAbortToListeners == [][GuardAbortToListenersStep]_vars

\* in every step and every transition: an abort with an error other than
\* NavigationDuplicated follows a call of every registered error listener
\* with that error; an abort with anything else comes with no such call
ErrorsToListenersStep ==
    /\ GuardAbortReported
    /\ \A t \in 1..Len(trans') :
           \A i \in 1..Len(NewEntries(t)) :
               NewEntries(t)[i].what = "onAbort" =>
                   IF NewEntries(t)[i].detail = "error"
                   THEN \A fn \in Range(errorCbs) :
                            \E j \in 1..(i - 1) :
                                /\ NewEntries(t)[j].what = "errorCb"
                                /\ NewEntries(t)[j].id = fn
                                /\ NewEntries(t)[j].detail = "error"
                   ELSE \A j \in 1..Len(NewEntries(t)) :
                            NewEntries(t)[j].what # "errorCb"

\* C19 (amended): next(false) is reported to onAbort only; next(error) is
\* reported to every registered error listener and then to onAbort, as is
\* every error other than NavigationDuplicated in any transition
ErrorsToListeners == [][ErrorsToListenersStep]_vars

\* two transitions each ended with an error that the registered error
\* listener was called with
ErrorsToListenersWitness ==
    \E t \in Transitions : \E u \in Transitions :
        /\ t < u
        /\ HasAbort(t, "error") /\ Has(t, "errorCb")
        /\ HasAbort(u, "error") /\ Has(u, "errorCb")

\* ------------------------------------------------- next after supersession

\* what C20 states of a step in which a guard of a superseded transition
\* calls next(false), next(error) or next(location): no ensureURL, no error
\* listener called, no transition started, pending and the other
\* transitions as they were
SupersededNextStep ==
    \A c \in conts : \A arg \in {NextFalse, NextError} \cup Redirects :
        (trans[c.t].superseded /\ GuardNext(c, arg)) =>
            /\ \A i \in 1..Len(NewEntries(c.t)) :
                   NewEntries(c.t)[i].what \notin {"ensureURL", "errorCb"}
            /\ Len(trans') = Len(trans)
            /\ pending' = pending
            /\ \A u \in Transitions \ {c.t} : trans'[u] = trans[u]

\* C20: a guard of a superseded transition that calls next with false, an
\* error or a location after the supersession causes no side effect: the URL
\* is not resynchronized, no error listener is called, no transition is
\* started, and pending and the newer transition's progress are unaffected.
SupersededNextHasNoEffect == [][SupersededNextStep]_vars

\* ------------------------------------------------ pending after the end

\* whether transition t has ended: committed, or aborted for any reason
Ended(t) == Committed(t) \/ Has(t, "onAbort")

\* C21: whenever no guard queue is executing, pending is null: after a
\* transition has ended by commit, by a guard abort (false, an error value, a
\* thrown error), by a lazy-view failure or by a redirect, pending no longer
\* refers to that transition's target route.
PendingNullWhenIdle ==
    /\ (conts = {} /\ factories = {}) => pending = NullRoute
    /\ \A t \in Transitions : Ended(t) => pending # t

\* ------------------------------------------------------- the lazy-view step

\* the calls of next made by the lazy-view step, in order
LazyCalls == lz.calls

\* C22: for any chain and any timing of factory resolution, including
\* factories that resolve while they are being invoked, the lazy-view step
\* calls next() to proceed only after every factory of the chain has
\* resolved, and it calls it during its own invocation when the chain has no
\* factory.
LazyProceedsAfterAll ==
    /\ \A i \in 1..Len(LazyCalls) :
           LazyCalls[i].arg = "undefined" =>
               Factories(lzViews) \subseteq LazyCalls[i].replaced
    /\ (lzInvoked /\ Factories(lzViews) = {}) =>
           /\ Len(LazyCalls) = 1
           /\ LazyCalls[1].arg = "undefined"

\* C23: once a factory has rejected, the lazy-view step has called next with
\* an error exactly once, for the first rejection, and neither a later
\* rejection nor a later resolution of the same or of another factory calls
\* next again.
LazyRejectsOnce ==
    \A i \in 1..Len(LazyCalls) :
        LazyCalls[i].arg = "error" =>
            /\ i = Len(LazyCalls)
            /\ \A j \in 1..(i - 1) : LazyCalls[j].arg # "error"

\* ---------------------------------------------------------------- runQueue

IsFnEvent(e) == e.what = "fn"
\* the calls of fn, in order
FnCalls == SelectSeq(qLog, IsFnEvent)
\* the entries of the queue that are not null
Present == {k \in 1..Len(qQueue) : qQueue[k]}
\* whether the continuation given for entry k was called before position p
AdvancedBefore(k, p) ==
    \E q \in 1..(p - 1) : qLog[q] = QueueEvent("advance", k)

\* what C24 states of the history of one runQueue call
QueueSequential ==
    \* fn is called on entries that are not null, in increasing index order
    /\ \A i \in 1..Len(FnCalls) : FnCalls[i].index \in Present
    /\ \A i \in 1..Len(FnCalls) : \A j \in 1..Len(FnCalls) :
           i < j => FnCalls[i].index < FnCalls[j].index
    \* an entry is started only after the continuations of the entries
    \* before it have been called
    /\ \A p \in 1..Len(qLog) :
           qLog[p].what = "fn" =>
               \A k \in Present : k < qLog[p].index => AdvancedBefore(k, p)
    \* cb is called only after the last entry has advanced, and by runQueue
    \* itself when no entry is present
    /\ \A p \in 1..Len(qLog) :
           qLog[p].what = "cb" => \A k \in Present : AdvancedBefore(k, p)
    /\ (qStarted /\ Present = {}) => qLog = <<QueueEvent("cb", 0)>>

AdvancedOnce == \A k \in 1..Len(qQueue) : qAdvanced[k] <= 1

IsReadyErrorCall(e) == e.what = "readyErrorCb"
\* the ready-error callbacks a step called for transition t, in order
Flushed(t) ==
    LET calls == SelectSeq(NewEntries(t), IsReadyErrorCall)
    IN  [i \in 1..Len(calls) |-> calls[i].id]

\* what the original statement of C25 says of a step in which a guard ends
\* the first transition to conclude with next(false) or next(error)
GuardAbortFlushesStep ==
    \A c \in conts : \A arg \in {NextFalse, NextError} :
        (GuardNext(c, arg) /\ \A u \in Transitions : ~Ended(u)) =>
            /\ ready'
            /\ Flushed(c.t) = readyErrorCbs

\* the original statement of C25: when the first transition to conclude ends
\* because a guard called next(false) or next(error), the queued ready-error
\* callbacks are flushed and the controller becomes ready
GuardAbortFlushes == [][GuardAbortFlushesStep]_vars

ErrorAbortFlushesStep ==
    /\ \A c \in conts :
           (GuardNext(c, NextError) /\ ~ready) =>
               /\ ready'
               /\ Flushed(c.t) = readyErrorCbs
    /\ \A c \in conts :
           GuardNext(c, NextFalse) =>
               /\ ready' = ready
               /\ Flushed(c.t) = << >>

\* C25: when a transition ends because a guard called next(error) while the
\* controller is not ready, the queued ready-error callbacks are called, in
\* order, and the controller becomes ready; when it ends because a guard
\* called next(false), no callback is called and ready is left as it was.
ErrorAbortFlushes == [][ErrorAbortFlushesStep]_vars

\* the first transition ended with next(false) and called no ready-error
\* callback; a later one ended with an error and called the queued callback
ErrorAbortFlushesWitness ==
    \E t \in Transitions : \E u \in Transitions :
        /\ t < u
        /\ \A v \in Transitions : Ended(v) => v >= t
        /\ HasAbort(t, "false") /\ ~Has(t, "readyErrorCb")
        /\ HasAbort(u, "error") /\ Has(u, "readyErrorCb")
        /\ ready

\* ---------------------------------------------------------- throwing guards

\* the positions in the history of t at which the iterator caught what a
\* guard threw
Catches(t) == {i \in 1..Len(Events(t)) : Events(t)[i].what = "catch"}

\* the guard whose throw was caught at position i
Thrower(t, i) == Guard(Events(t)[i].detail, Events(t)[i].id, Events(t)[i].slot)

\* the position at which that guard was invoked
InvokedAt(t, i) ==
    CHOOSE j \in 1..(i - 1) :
        /\ Events(t)[j].what = "guard"
        /\ Guard(Events(t)[j].detail, Events(t)[j].id, Events(t)[j].slot) = Thrower(t, i)
        /\ \A k \in (j + 1)..(i - 1) :
               ~ /\ Events(t)[k].what = "guard"
                 /\ Guard(Events(t)[k].detail, Events(t)[k].id, Events(t)[k].slot)
                        = Thrower(t, i)

\* in a step, every throw that is caught is reported to every error listener,
\* in order (to the console when there is none), and then to onAbort
ThrowReportedStep ==
    \A t \in 1..Len(trans') :
        LET new == NewEntries(t)
            n == Len(errorCbs)
        IN  \A i \in 1..Len(new) :
                new[i].what = "catch" =>
                    /\ Len(new) >= i + Max(n, 1) + 1
                    /\ IF n = 0 THEN new[i + 1].what = "console.error"
                       ELSE \A k \in 1..n :
                                /\ new[i + k].what = "errorCb"
                                /\ new[i + k].id = errorCbs[k]
                                /\ new[i + k].detail = "error"
                    /\ new[i + Max(n, 1) + 1].what = "onAbort"
                    /\ new[i + Max(n, 1) + 1].detail = "error"

\* the throw caught at position i of t ended t: no guard of t was invoked
\* after the one that threw, and current is what it was
ThrowEnds(t, i) ==
    /\ \A k \in (InvokedAt(t, i) + 1)..Len(Events(t)) : ~IsGuardEvent(Events(t)[k])
    /\ Events(t)[i].cur = Events(t)[InvokedAt(t, i)].cur
    /\ ~Committed(t)
    /\ current # t

ThrowAfterNextWitness ==
    \E t \in Transitions : \E i \in Catches(t) :
        /\ ThrowMode(Thrower(t, i)) = "next, throws"
        /\ \E k \in (InvokedAt(t, i) + 1)..(i - 1) : IsGuardEvent(Events(t)[k])
        /\ Has(t, "onAbort")

\* ------------------------------------------------------------------ stalling

\* a step in which a guard of the pending transition keeps its continuation
\* and no transition is started leaves that transition where it is
StallStep ==
    \A c \in conts :
        (c.t = pending /\ c \in conts' /\ Len(trans') = Len(trans)) =>
            /\ trans'[c.t].events = trans[c.t].events
            /\ current' = current
            /\ pending' = pending
            /\ \A d \in conts' : d.t = c.t => d = c

\* C27: while a guard of the pending transition has not invoked its
\* continuation and no other transition is started, navigation stalls: no
\* later guard of the transition runs, current does not change, pending
\* stays the target, and neither onComplete nor onAbort is invoked, whatever
\* else happens and for however long.
GuardStalls == [][StallStep]_vars

\* the pending transition is suspended in a guard, and meanwhile a guard of
\* the transition it superseded has called next and been aborted
GuardStallsWitness ==
    \E c \in conts :
        /\ c.t = pending
        /\ \E u \in Transitions \ {c.t} :
               /\ trans[u].superseded
               /\ \E i \in 1..Len(Events(u)) :
                      /\ Events(u)[i].what = "onAbort"
                      /\ Events(u)[i].pend = c.t
        /\ ~Ended(c.t)

\* --------------------------------------------------- enter-guard callbacks

\* the positions in the history of t at which the callback the enter guard
\* of cb's view gave to next was run
EnterCalls(t, cb) ==
    {i \in 1..Len(Events(t)) :
        /\ Events(t)[i].what = "enterCb"
        /\ Events(t)[i].id = cb.rec
        /\ Events(t)[i].slot = cb.slot}

\* the position in the history of t at which onComplete was called
CommittedAt(t) == CHOOSE i \in 1..Len(Events(t)) : Events(t)[i].what = "onComplete"

\* a callback is run only after its transition has committed, and at most once
EnterCallbackDeferred ==
    \A t \in Transitions : \A cb \in EnterCallbacks :
        /\ EnterCalls(t, cb) # {} =>
               /\ Committed(t)
               /\ \A i \in EnterCalls(t, cb) : i > CommittedAt(t)
               /\ \E k \in 1..Len(trans[t].postEnterCbs) : trans[t].postEnterCbs[k] = cb
        /\ Cardinality(EnterCalls(t, cb)) <= 1
        /\ ~Committed(t) => (~trans[t].tick /\ trans[t].polls = {})

\* an enter guard of the pending transition that passes a function to next
\* lets the pipeline proceed: the next guard is invoked or the transition
\* commits, and the function is not run in that step
EnterCallbackProceedsStep ==
    \A c \in conts :
        (/\ GuardNext(c, Callback)
         /\ c.t = pending
         /\ Queue(World, c.t, c.phase)[c.index].kind = "enter") =>
            /\ Len(NewEntries(c.t)) > 0
            /\ \/ IsGuardEvent(NewEntries(c.t)[1])
               \/ NewEntries(c.t)[1].what \in {"listener", "afterEach", "onComplete"}
            /\ \A i \in 1..Len(NewEntries(c.t)) :
                   NewEntries(c.t)[i].what \notin {"onAbort", "enterCb"}

\* a callback is run in a step only if the instance of its view is
\* registered; timers are set only while current is the transition's route,
\* and a timer that fires when it is not ends the polling
EnterCallbackPollStep ==
    \A t \in Transitions :
        /\ \A i \in 1..Len(NewEntries(t)) :
               /\ NewEntries(t)[i].what = "enterCb" =>
                      <<NewEntries(t)[i].id, NewEntries(t)[i].slot>> \in instances
               /\ NewEntries(t)[i].what = "setTimeout" => current = t
        /\ current # t => trans'[t].polls \subseteq trans[t].polls
        /\ \A cb \in EnterCallbacks :
               (pollTimer(t, cb) /\ current # t) => cb \notin trans'[t].polls

\* C28: a callback an enter guard passes to its continuation lets the
\* pipeline proceed and is deferred: it is never run before its transition
\* has committed, never run if the transition aborts or is superseded before
\* commit, run at most once, when the view instance of its record and slot is
\* registered, and the polling for the instance stops as soon as a poll finds
\* that current is no longer that transition's route.
EnterCallbackDeferredAndPolled ==
    /\ []EnterCallbackDeferred
    /\ [][EnterCallbackProceedsStep]_vars
    /\ [][EnterCallbackPollStep]_vars

\* one transition committed and its callback was dropped by a poll after
\* the route had changed; the next one committed, polled for the instance
\* and ran its callback
EnterCallbackWitness ==
    \E t \in Transitions : \E u \in Transitions :
        /\ t # u
        /\ current = u
        /\ Committed(t) /\ Len(trans[t].postEnterCbs) > 0
        /\ Has(t, "setTimeout") /\ ~Has(t, "enterCb")
        /\ ~trans[t].tick /\ trans[t].polls = {}
        /\ Has(u, "setTimeout") /\ Has(u, "enterCb")

\* -------------------------------------------------------- alias resolution

pR == <<"/", "r", "/", ":i">>
pS == <<"/", "s", "/", ":i">>
pQ == <<"/", "q", "/", ":i">>
pK == <<"/", "k", "/", ":t?">>
pS1 == <<"/", "s", "/", "1">>

\* the route declarations of the tables an alias is matched on
AliasDeclarations ==
    { \* /r/:i with the alias /s/:i and a child b
      Decl(pR, "R", <<pS>>, <<Leaf(pB, "B")>>, FALSE),
      \* /a with the alias /x, a default child and a child b
      Decl(pA, "A", <<pX>>, <<Leaf(pEmpty, Undefined), Leaf(pB, "B")>>, FALSE),
      \* /q/:i with the alias /k/:t?, which has no parameter i
      Decl(pQ, "Q", <<pK>>, << >>, FALSE),
      \* /s/1, which the alias /s/:i matches as well
      Leaf(pS1, "S") }

AliasRouteLists == SeqsUpTo(AliasDeclarations, MaxRoutes)

\* the paths given to match
AliasPaths ==
    { pS1, <<"/", "s", "/", "2">>, pS1 \o Slash \o pB, pX, pX \o Slash,
      pX \o Slash \o pB, <<"/", "k">>, <<"/", "k", "/", "1">>,
      <<"/", "r", "/", "1">>, pA, <<"/", "q", "/", "2">>, <<"/", "z">> }

InitAliasTable ==
    \E routes \in AliasRouteLists :
        LET T == createRouteMap(EmptyTable, routes)
        IN  /\ pathList = T.pathList
            /\ pathMap = T.pathMap
            /\ nameMap = T.nameMap
            /\ records = T.records
            /\ regLog = T.regLog
            /\ prePin = T.prePin
            /\ addCalls = 0

InitAlias ==
    /\ mLocation \in {[name |-> Undefined, path |-> path, params |-> NoParams] :
                         path \in AliasPaths}
    /\ mCurrentParams = NoParams
    /\ mParams = NoParams
    /\ mRoute = StartRoute
    /\ mAgain = StartRoute
    /\ mPhase = 0

InitSpecAlias ==
    InitAliasTable /\ IdleDiff /\ InitAlias /\ IdleUnreg /\ IdleUnits /\ IdleEngine
SpecAlias == InitSpecAlias /\ [][NextMatch]_vars

\* the record match(location) finds for the path of the location, NoRecord
\* when it finds none
FoundRecord == ScanPathList(CurrentTable, mLocation.path, 1)

\* whether match was called and found the record of an alias
AliasMatched ==
    /\ mPhase >= 1
    /\ FoundRecord # NoRecord
    /\ records[FoundRecord].matchAs # NoPath

\* what match returns for the path the alias stands for, filled with the
\* parameters of the match of the alias
AliasTarget ==
    matchByPath(CurrentTable,
                fillParams(records[FoundRecord].matchAs,
                           matchParams(records[FoundRecord].regex, mLocation.path)))

\* C29 (as stated): matching a path registered as an alias yields a Route whose
\* matched chain is that of the alias's own record, the record with matchAs
\* walked up through its parents, and whose params are those of the match of
\* the matchAs target path
AliasOwnChain ==
    AliasMatched =>
        /\ mRoute.matched = formatMatch(CurrentTable, FoundRecord)
        /\ mParams = AliasTarget.params

\* C29 (amended): matching a path registered as an alias yields a Route whose
\* matched chain is the chain of the match of the matchAs target path, in
\* which no record is an alias, and whose params are those of that match
AliasTargetChain ==
    AliasMatched =>
        /\ mRoute.matched = AliasTarget.route.matched
        /\ \A k \in 1..Len(mRoute.matched) : records[mRoute.matched[k]].matchAs = NoPath
        /\ mParams = AliasTarget.params

\* /s/1/b was matched through the alias of the child of /r/:i, on a table
\* where no other entry matches it: the chain is /r/:i, /r/:i/b
AliasTargetWitness ==
    /\ AliasMatched
    /\ mLocation.path = pS1 \o Slash \o pB
    /\ Len(mRoute.matched) = 2
    /\ records[mRoute.matched[2]].path = pR \o Slash \o pB
    /\ mParams = MapSet(NoParams, "i", <<"1">>)

\* the names of the parameters of a path
KeyNames(path) == {Keys(path)[k].name : k \in 1..Len(Keys(path))}

\* whether the path given to match is the path of the alias record a with the
\* parameter values v, and match finds a for it
IsAliasPath(a, v) ==
    /\ records[a].matchAs # NoPath
    /\ DOMAIN v \subseteq KeyNames(records[a].path)
    /\ Fill(records[a].path, v).ok
    /\ Fill(records[a].path, v).out = mLocation.path
    /\ FoundRecord = a

MaxRedirectRoutes == 3

Redirecting(decl, option) == [decl EXCEPT !.redirect = option]
ToName(name, has, query, hash, params) ==
    RedirectOption("object", {"name"} \cup has, name, NoPath, query, hash, params)
ToPath(path) ==
    RedirectOption("string", {}, Undefined, path, NoQuery, NoQuery, NoParams)

pI2 == MapSet(NoParams, "i", <<"2">>)

RedirectDeclarations ==
    { \* /a redirects to the name B, with params and a hash of its own
      Redirecting(Leaf(pA, "A"), ToName("B", {"params", "hash"}, NoQuery, "h2", pI2)),
      \* /e, named B, redirects to the name T
      Redirecting(Leaf(pE, "B"), ToName("T", {}, NoQuery, NoQuery, NoParams)),
      \* /e, named B, redirects back to the name A
      Redirecting(Leaf(pE, "B"), ToName("A", {"query"}, "q2", NoQuery, NoParams)),
      \* /r/:i, named T, does not redirect
      Leaf(pR, "T"),
      \* /d redirects to the path /e
      Redirecting(Leaf(pD, "D"), ToPath(pE)),
      \* /e, without a name, redirects to the path /d
      Redirecting(Leaf(pE, Undefined), ToPath(pD)) }

RedirectRouteLists == SeqsUpTo(RedirectDeclarations, MaxRedirectRoutes)

\* the locations given to match, by name or by path, and the current routes
RedirectLocations ==
    {Loc(name, NoPath, query, NoQuery, params) :
        name \in {"A", "B", "T", "D"}, query \in {NoQuery, "q1"},
        params \in {NoParams, MapSet(NoParams, "i", <<"1">>)}}
    \cup {Loc(Undefined, path, query, NoQuery, NoParams) :
             path \in {pA, pE, pD, <<"/", "r", "/", "1">>}, query \in {NoQuery, "q1"}}
CurrentRoutes == {NotGiven, CurrentRoute(MapSet(NoParams, "i", <<"1">>))}

InitRedirectTable ==
    \E routes \in RedirectRouteLists :
        LET T == createRouteMap(EmptyTable, routes)
        IN  /\ pathList = T.pathList
            /\ pathMap = T.pathMap
            /\ nameMap = T.nameMap
            /\ records = T.records
            /\ regLog = T.regLog
            /\ prePin = T.prePin
            /\ addCalls = 0

\* router.match(location, current) has been called
InitRedirect ==
    /\ rCall \in {MatchArgs(location, currentRoute, NotGiven) :
                     location \in RedirectLocations, currentRoute \in CurrentRoutes}
    /\ rCalls = <<rCall>>
    /\ rRoute = << >>

InitSpecRedirect ==
    InitRedirectTable /\ IdleDiff /\ IdleMatch /\ IdleUnreg /\ IdleLazy /\ IdleQueue
    /\ NoThrowers /\ InitRedirect /\ IdleEngine
NextRedirect == matchEnters \/ matchReturns
SpecRedirect == InitSpecRedirect /\ [][NextRedirect]_vars

\* the record the k-th call of match found, and the location as that call
\* left it
FoundBy(k) == FindRecord(CurrentTable, rCalls[k])

\* whether the k-th call of match found a record that redirects to a name
\* and entered match again
RedirectsToName(k) ==
    /\ k < Len(rCalls)
    /\ FoundBy(k).record # NoRecord
    /\ records[FoundBy(k).record].redirect.kind = "object"
    /\ "name" \in records[FoundBy(k).record].redirect.has

\* whether the call of match entered from the redirect re carries the name
\* of re and the query, hash and params of the location, each replaced by
\* that of re when re has the property, and has no current route
CarriesOver(call, re, location) ==
    /\ call.location.name = re.name
    /\ call.location.query = IF "query" \in re.has THEN re.query ELSE location.query
    /\ call.location.hash = IF "hash" \in re.has THEN re.hash ELSE location.hash
    /\ call.location.params = IF "params" \in re.has THEN re.params ELSE location.params
    /\ ~call.currentRoute.defined

\* C31: when the record a call of match found redirects to a named target,
\* match is entered again with that name and with the query, hash and params
\* of the location of that call, each replaced by the redirect object's own
\* when it has the property, and without a current route
RedirectCarriesOver ==
    \A k \in 1..Len(rCalls) :
        RedirectsToName(k) =>
            CarriesOver(rCalls[k + 1], records[FoundBy(k).record].redirect,
                        FoundBy(k).location)

\* the same for the first redirect of a call of match alone, where the
\* location redirect is given is the location of the call
FirstRedirectCarriesOver ==
    RedirectsToName(1) =>
        CarriesOver(rCalls[2], records[FoundBy(1).record].redirect, FoundBy(1).location)

\* the location redirect is given by every call that the first call of match
\* leads to: redirectedFrom || location
FirstLocation == FoundBy(1).location

\* whether the record a redirects to the record b: to a name that nameMap
\* holds for b, or to a path for which b is the first entry that matches
RedirectsTo(a, b) ==
    LET re == records[a].redirect
    IN  \/ /\ re.kind = "object"
           /\ "name" \in re.has
           /\ re.name \in DOMAIN nameMap
           /\ nameMap[re.name] = b
        \/ /\ re.kind = "string"
           /\ ScanPathList(CurrentTable, fillParams(re.path, FirstLocation.params), 1) = b

\* whether the first call of match found a record A that redirects to a
\* record B that redirects back to A
InRedirectCycle ==
    /\ Len(rCalls) > 0
    /\ \E a, b \in DOMAIN records :
           /\ FoundBy(1).record = a
           /\ RedirectsTo(a, b)
           /\ RedirectsTo(b, a)

\* C32: on a table in which record A redirects to B and B redirects back to
\* A, a call of match that finds A has not returned a Route, failed or not,
\* however often match was entered, and the call that is running enters
\* match again
RedirectCycleNeverReturns ==
    InRedirectCycle =>
        /\ rRoute = << >>
        /\ MatchBody(CurrentTable, rCall).enters

\* match was entered MaxRedirects times from redirect, between two records
\* that redirect to each other, and has not returned
RedirectCycleWitness ==
    /\ InRedirectCycle
    /\ Len(rCalls) = MaxRedirects + 1
    /\ FoundBy(1).record # FoundBy(2).record
    /\ rRoute = << >>

\* ------------------------------------------------- the chains of one table

\* the matched chains match can give on the table: that of every record
TableChains == {formatMatch(CurrentTable, r) : r \in DOMAIN records}

\* whether two chains differ at index i: they hold different records there,
\* or one of them ends before it
DifferAt(c, d, i) ==
    \/ i <= Len(c) /\ i <= Len(d) /\ c[i] # d[i]
    \/ i <= Len(c) /\ i > Len(d)
    \/ i > Len(c) /\ i <= Len(d)

\* the records of a chain from index i on
RecordsFrom(c, i) == {c[j] : j \in {k \in DOMAIN c : k >= i}}

\* C33: for any two matched chains of one table, after the build and after
\* every addRoutes call: when they differ at index i, no record at an index
\* from i on of one chain occurs in the other chain; and in resolveQueue of
\* the two chains no record is both in activated and in deactivated, or
\* both in updated and in deactivated or activated
DivergenceMonotonic ==
    \A c, d \in TableChains :
        /\ \A i \in 1..Max(Len(c), Len(d)) :
               DifferAt(c, d, i) =>
                   /\ RecordsFrom(c, i) \cap Range(d) = {}
                   /\ RecordsFrom(d, i) \cap Range(c) = {}
        /\ LET queue == resolveQueue(c, d)
           IN  /\ Range(queue.activated) \cap Range(queue.deactivated) = {}
               /\ Range(queue.updated) \cap Range(queue.deactivated) = {}
               /\ Range(queue.updated) \cap Range(queue.activated) = {}

\* after an addRoutes call the table has two chains of two records that
\* differ at their first record, and two that share their first record and
\* differ at the second
DivergenceWitness ==
    /\ addCalls > 0
    /\ \E c, d \in TableChains :
           Len(c) = 2 /\ Len(d) = 2 /\ c[1] # d[1]
    /\ \E c, d \in TableChains :
           Len(c) = 2 /\ Len(d) = 2 /\ c[1] = d[1] /\ c[2] # d[2]

\* ------------------------------------------------ one outcome per transition

\* the calls of the outcome callbacks (onComplete, onAbort) of a transition,
\* as indexes of its history
OutcomeCalls(t) ==
    {i \in 1..Len(Events(t)) : Events(t)[i].what \in {"onComplete", "onAbort"}}

\* C34: a transition in which every guard invokes its continuation at most
\* once and every view factory settles at most once has at most one call of
\* an outcome callback: never both onComplete and onAbort, neither of them
\* twice, its target committed at most once
OneOutcomePerTransition ==
    \A t \in DOMAIN trans : Cardinality(OutcomeCalls(t)) <= 1

\* ------------------------------------------------------ proceeding guards

\* whether the transition t was started and is not a duplicate
NonDuplicate(t) ==
    /\ t \in Transitions
    /\ ~HasAbort(t, "NavigationDuplicated")

\* whether onComplete of t was called, with current set to the target of t
\* and pending set to null
CommittedAsCurrent(t) ==
    \E i \in 1..Len(Events(t)) :
        /\ Events(t)[i].what = "onComplete"
        /\ Events(t)[i].cur = t
        /\ Events(t)[i].pend = NullRoute

\* C35: when every guard that is invoked calls next() and every factory
\* resolves (weak fairness of both), a transition that is not a duplicate
\* eventually commits: current is its target, pending is null and onComplete
\* is called; unless another transition that is not a duplicate was started
\* after it
ProceedingCommits ==
    \A t \in 1..MaxProceeding :
        NonDuplicate(t) ~>
            (t \in Transitions /\
                 \/ CommittedAsCurrent(t)
                 \/ \E u \in Transitions : u > t /\ NonDuplicate(u))

\* the last transition that was started went through a guard of each queue
\* and through lazy views, and committed
ProceedingWitness ==
    \E t \in Transitions :
        /\ t = MaxProceeding
        /\ CommittedAsCurrent(t)
        /\ Has(t, "lazy")
        /\ \E i \in 1..Len(Events(t)) :
               Events(t)[i].what = "guard" /\ Events(t)[i].arg = 2

\* C36, in every step: a transitionTo whose target is the current route,
\* called while the transition A is pending and waits for a guard or a
\* factory, leaves pending at A, leaves the continuations and the factories
\* that are waited for as they are, and leaves A and current untouched
DuplicateWhilePendingStep ==
    Len(routeHeap') > Len(routeHeap) =>
        LET t == Len(routeHeap')
            route == routeHeap'[t]
            cur == RouteOf(World, current)
        IN  (/\ route.path = cur.path
             /\ Len(route.matched) = Len(cur.matched)
             /\ pending # NullRoute
             /\ IsSuspended(pending)) =>
                /\ pending' = pending
                /\ current' = current
                /\ conts' = conts
                /\ factories' = factories
                /\ trans'[pending] = trans[pending]

\* C36, in every state: a transition that is not a duplicate and after which
\* only duplicates were started is pending, or it has committed
LastNonDuplicateGoesOn ==
    \A a \in Transitions :
        (/\ NonDuplicate(a)
         /\ \A u \in Transitions : u > a => ~NonDuplicate(u)) =>
            \/ pending = a /\ IsSuspended(a) /\ ~trans[a].superseded
            \/ CommittedAsCurrent(a)

\* C36: a duplicate navigation issued while another transition A is pending
\* does not supersede A: pending still refers to A's target, and A goes on
\* with its guards and can commit
DuplicateDoesNotSupersede ==
    [][DuplicateWhilePendingStep]_vars /\ []LastNonDuplicateGoesOn

\* the transition A was pending when a duplicate navigation was aborted, and
\* A committed afterwards
DuplicateWhilePendingWitness ==
    \E a, t \in Transitions :
        /\ a < t
        /\ HasAbort(t, "NavigationDuplicated")
        /\ \E i \in 1..Len(Events(t)) : Events(t)[i].pend = a
        /\ CommittedAsCurrent(a)
        /\ Has(a, "guard")

\* ------------------------------------------- ready callbacks and the commit

\* whether the success callback fn queued through onReady was called
SuccessCalled(fn) ==
    \E t \in Transitions : \E i \in 1..Len(Events(t)) :
        Events(t)[i].what = "readyCb" /\ Events(t)[i].id = fn

\* whether a transition has committed
SomeCommitted == \E t \in Transitions : Committed(t)

\* whether a transition was aborted with an error (a truthy reason) while
\* current was still START, that is before the first commit
ErrorBeforeCommit ==
    \E t \in Transitions : \E i \in 1..Len(Events(t)) :
        /\ Events(t)[i].what = "onAbort"
        /\ Truthy(Events(t)[i].detail)
        /\ Events(t)[i].cur = START

\* C37 (as stated): once a transition has committed, every success callback
\* queued through onReady has been called, also when earlier transitions
\* ended with an error before that commit
ReadyCalledByFirstCommit ==
    SomeCommitted => \A k \in 1..Len(readyCbs) : SuccessCalled(readyCbs[k])

\* C37 (amended): once a transition has committed, every success callback
\* queued through onReady has been called, also when earlier transitions
\* were aborted by next(false), by a redirect or as superseded, provided
\* that no transition was aborted with an error before the first commit;
\* after such an abort the controller is ready and the queued success
\* callbacks are never called
ReadyCalledUnlessError ==
    \A k \in 1..Len(readyCbs) :
        IF ErrorBeforeCommit
        THEN ready /\ ~SuccessCalled(readyCbs[k])
        ELSE SomeCommitted => SuccessCalled(readyCbs[k])

\* a transition was aborted by next(false), a later one committed and called
\* the success callback that was queued before both
ReadyCalledWitness ==
    /\ Len(readyCbs) > 0
    /\ SuccessCalled(readyCbs[1])
    /\ \E t \in Transitions : HasAbort(t, "false")
    /\ \E t \in Transitions : Committed(t) /\ t > 1

\* ------------------------------------------------- afterEach and the commit

IsAfterEach(e) == e.what = "afterEach"
IsOnComplete(e) == e.what = "onComplete"

\* the afterEach calls in the history of t
AfterEachCalls(t) == SelectSeq(Events(t), IsAfterEach)

\* in every state: afterEach calls are found only in the history of a
\* transition that committed, committed once, was not aborted (as a
\* duplicate, by next(false), by an error or by a redirect) and was not
\* superseded; no hook was called twice for it
AfterEachOnlyCommitted ==
    \A t \in Transitions :
        Len(AfterEachCalls(t)) > 0 =>
            /\ Len(SelectSeq(Events(t), IsOnComplete)) = 1
            /\ ~Has(t, "onAbort")
            /\ ~trans[t].superseded
            /\ \A i, j \in 1..Len(AfterEachCalls(t)) :
                   AfterEachCalls(t)[i].id = AfterEachCalls(t)[j].id => i = j

\* in every step: a transition whose onComplete is called in the step has
\* every registered afterEach hook called in the step, once, in the order of
\* afterHooks, before onComplete, with current already set to the target and
\* with the current of before the step as `from`; a transition whose
\* onComplete is not called in the step has no afterEach hook called
AfterEachStep ==
    \A t \in 1..Len(trans') :
        LET added == NewEntries(t)
            calls == SelectSeq(added, IsAfterEach)
        IN  IF \E i \in 1..Len(added) : IsOnComplete(added[i])
            THEN /\ [k \in 1..Len(calls) |-> calls[k].id] = afterHooks
                 /\ \A k \in 1..Len(calls) :
                        calls[k].cur = t /\ calls[k].arg = current
                 /\ current' = t
                 /\ \A i, j \in 1..Len(added) :
                        (IsAfterEach(added[i]) /\ IsOnComplete(added[j])) => i < j
            ELSE Len(calls) = 0

NamedRecords == {nameMap[n] : n \in DOMAIN nameMap}
PathRecords == {pathMap[p] : p \in DOMAIN pathMap}

\* whether the record id is the record pathMap holds under the record's path
InPathMap(id) ==
    /\ records[id].path \in DOMAIN pathMap
    /\ pathMap[records[id].path] = id

\* whether another record was created with the path of the record id
SharesPath(id) ==
    \E other \in 1..Len(records) :
        other # id /\ records[other].path = records[id].path

\* the parents of the records nameMap and pathMap hold
ParentsOfRegistered ==
    {records[id].parent : id \in {r \in NamedRecords \cup PathRecords :
                                      records[r].parent # NoParent}}

\* C39 (as stated): after the build and after every addRoutes call, every
\* record nameMap holds is the record pathMap holds under its path, and the
\* parent of every record pathMap or nameMap holds is a record pathMap holds
NameMapWithinPathMap ==
    \A id \in NamedRecords \cup ParentsOfRegistered : InPathMap(id)

\* C39 (amended): after the build and after every addRoutes call, the path of
\* every record nameMap holds, and of the parent of every record pathMap or
\* nameMap holds, is a key of pathMap whose record has that path; the record
\* under that key is the record itself unless another record was created
\* with the same path, and of the records created with one path exactly one
\* is held by pathMap
NameMapPathsWithinPathMap ==
    /\ \A id \in NamedRecords \cup ParentsOfRegistered :
           /\ records[id].path \in DOMAIN pathMap
           /\ records[pathMap[records[id].path]].path = records[id].path
           /\ ~SharesPath(id) => InPathMap(id)
    /\ \A p \in DOMAIN pathMap :
           Cardinality({id \in 1..Len(records) :
                           records[id].path = p /\ InPathMap(id)}) = 1

\* a named record that pathMap holds, with a parent pathMap holds, and a
\* named record whose path pathMap holds for another record
NameMapWitness ==
    /\ \E id \in NamedRecords :
           /\ InPathMap(id)
           /\ records[id].parent # NoParent
           /\ InPathMap(records[id].parent)
    /\ \E id \in NamedRecords : ~InPathMap(id) /\ SharesPath(id)
    /\ addCalls > 0

\* ------------------------------------------- the order of nested paths

RECURSIVE IsAncestor(_, _)
\* whether the record a is the parent of d, or the parent of an ancestor of d
IsAncestor(a, d) ==
    /\ records[d].parent # NoParent
    /\ \/ records[d].parent = a
       \/ IsAncestor(a, records[d].parent)

\* whether the record a was created for an alias of the record r: by
\* addRouteRecord(..., {path: alias, children}, parent, record.path || '/')
\* after r was created
IsAliasOf(a, r) ==
    /\ a > r
    /\ records[a].parent = records[r].parent
    /\ records[a].matchAs # NoPath
    /\ records[a].matchAs =
           (IF Len(records[r].path) = 0 THEN Slash ELSE records[r].path)

\* the records whose path was registered for them
Registering == {id \in 1..Len(records) : InPathMap(id)}

\* a descendant that registered its path stands before its ancestor that
\* registered its path
DescendantsFirst ==
    \A a, d \in Registering :
        IsAncestor(a, d) => IndexOf(pathList, records[d].path) < IndexOf(pathList, records[a].path)

\* C40 (as stated): after the build and after every addRoutes call, the path
\* a descendant registered stands before the path its ancestor registered in
\* pathList, and the path an alias registered stands after the path of the
\* record it is an alias of
NestedPathsFirst ==
    /\ DescendantsFirst
    /\ \A a \in Registering : \A r \in 1..Len(records) :
           IsAliasOf(a, r) => IndexOf(pathList, records[a].path) > IndexOf(pathList, records[r].path)

\* C40 (amended): after the build and after every addRoutes call, the path a
\* descendant registered stands before the path its ancestor registered in
\* pathList; the path an alias registered stands after the path of the
\* record it is an alias of, unless that path is the wildcard, which the
\* wildcard pass moves behind every other path, its aliases included
NestedPathsFirstButWildcard ==
    /\ DescendantsFirst
    /\ \A a \in Registering : \A r \in 1..Len(records) :
           IsAliasOf(a, r) =>
               IF records[r].path = Star
               THEN IndexOf(pathList, records[a].path) < IndexOf(pathList, records[r].path)
               ELSE IndexOf(pathList, records[a].path) > IndexOf(pathList, records[r].path)

\* after an addRoutes call: a child that registered its path before its
\* parent's, an alias that registered its path after the path of its record,
\* and an alias of the wildcard
NestedPathsWitness ==
    /\ addCalls > 0
    /\ \E a, d \in Registering : IsAncestor(a, d)
    /\ \E a \in Registering : \E r \in Registering :
           IsAliasOf(a, r) /\ records[r].path # Star
    /\ \E a \in Registering : \E r \in Registering :
           IsAliasOf(a, r) /\ records[r].path = Star

====
